---- MODULE Spec2Model ----
(***************************************************************************)
(* Model of the REDCap-mimic to Girder synchronisation code:               *)
(*   girder_client.py  upload_file, find_folder, create_folder,            *)
(*                     get_or_create_folder, get_folder_by_id,              *)
(*                     set_metadata, set_folder_access,                     *)
(*                     extract_and_upload_zip                               *)
(*   sync/extract_sync.py  find_girder_folder_path, sync_single_file,      *)
(*                     extract_and_sync_files                               *)
(*   app.py            redcap_webhook, upload_patient_files,                *)
(*                     sync_to_girder                                       *)
(*   scripts/create_girder_schema.py  create_girder_schema                  *)
(*   database.py       mark_file_synced, get_document_folder_id            *)
(*                                                                         *)
(* Sizes, offsets and `received` counts are measured in blocks of 5 MiB,   *)
(* so that CHUNK_SIZE (10 MiB) is 2 blocks and a 25 MiB payload is 5.      *)
(***************************************************************************)
EXTENDS Integers, Sequences, FiniteSets, TLC

\* girder_client.py:303  CHUNK_SIZE = 10 * 1024 * 1024, in blocks of 5 MiB
CHUNK_SIZE == 2

\* largest payload, in blocks (5 blocks = 25 MiB = 10 + 10 + 5)
MaxSize == 5

\* number of upload_file calls followed in one behaviour
MaxUploads == 2

\* remote file ids the server may answer with
MaxFileId == 2

\* app.py:36  ROOT_FOLDER_ID, the folder under which the CHU folders live
ROOT_FOLDER_ID == 1

\* a folder id that the local store may hold and that no remote folder has
StaleId == 9

\* file records of the local store
NFiles == 2

\* extract_and_sync_files runs and sync_to_girder requests followed in one
\* behaviour
MaxSyncRuns == 2

\* requests of one folder resolution, or of one create_girder_schema run, that
\* fail
MaxFailures == 1

\* create_girder_schema runs
MaxSchemaRuns == 2

\* the id of a second remote folder with the name of the center folder
TwinId == 7

\* requests of REDCap (webhook or upload) followed in one behaviour
MaxHooks == 1

\* patient records that one run of the webhook test suite sends
MaxSends == 3

\* largest number of entries of an archive
MaxEntries == 3

\* extract_and_upload_zip calls followed in one behaviour
MaxZips == 1

Min(a, b) == IF a <= b THEN a ELSE b

\* NULL of the local store, None of the code
NULL == 0
Resolvers == 1..2

\* app.py (the web process) and sync/extract_sync.py (the batch process)
Syncers == {"web", "batch"}

FileSizes == 0..MaxSize
FileIds == 1..MaxFileId

\* the payload of n blocks; block i holds the value i, so that two slices are
\* equal only when they are the same slice
Payload(n) == [i \in 1..n |-> i]

VARIABLES
    \* ---- upload_file: locals and what it returns or raises
    up_pc,        \* "idle" | "init" | "small" | "loop" | "returned" | "raised"
    file_data,    \* the payload (sequence of blocks)
    file_size,    \* len(file_data)
    folder_id,    \* the folder to upload to
    upload_id,    \* upload["_id"] of the init response, 0 before
    offset,       \* offset of the multi-chunk loop
    pos,          \* read cursor of file_io (io.BytesIO)
    result,       \* r.json() of the last chunk request
    file_result,  \* the accepted file document, NoResult while None
    up_exc,       \* the exception upload_file raised
    requests,     \* the requests this upload_file call has sent, in order
    \* ---- the remote file service
    next_upload_id,  \* upload sessions the server has opened so far
    n_uploads,       \* direct upload_file calls started so far
    \* ---- the remote folder service
    folders,         \* the folders: a set of [id, parentId, name]
    next_folder_id,  \* the id the next created folder gets
    folder_calls,    \* the folder requests of the handler that runs or ran last
    \* ---- the local store (database.py)
    girder_folder_id,  \* centers/patients/visits/document_types.girder_folder_id
    files,             \* files: id -> [document_type_id, synced_to_girder,
                       \*               girder_file_id]
    \* ---- the handler that called upload_file
    caller,          \* "direct" | "sync_single_file" | "sync_to_girder"
    cur_file,        \* file_id of the record being synced
    \* ---- extract_and_sync_files
    batch_pc,        \* "idle" | "running" | "done"
    unsynced_files,  \* the rows get_unsynced_files returned
    idx,             \* index in unsynced_files of the file being synced
    results,         \* the summary dict
    \* ---- sync_to_girder
    response,        \* the HTTP response of the last request
    n_syncs,         \* batch runs and HTTP requests started so far
    \* ---- create_girder_schema
    schema_pc,        \* "idle" | "running" | "done"
    cur_node,         \* the node the traversal handles next
    folder_ids,       \* center_girder_id, patient_girder_id, ...: the folder id
                      \* this run got for each node, NULL when none
    prev_folder_ids,  \* folder_ids of the run before
    failures,         \* folder requests of this run that failed
    prev_failures,    \* failures of the run before
    n_runs,           \* create_girder_schema runs started so far
    \* ---- two callers of get_or_create_folder that run at the same time
    r_pc,             \* per caller: "idle" | "find" | "create" | "done" | "raised"
    r_name,           \* per caller: the name argument
    r_parent,         \* per caller: the parent_id argument
    r_folder,         \* per caller: the id of the folder returned, or NULL
    \* ---- the web process and the batch process syncing at the same time
    s_pc,             \* per process: "idle" | "upload" | "mark" | "done"
    s_rows,           \* per process: the ids of the records it read as
                      \* unsynced and has still to sync
    s_got,            \* per process: girder_file['_id'] of its last upload
    remote_files,     \* the files the two processes created in the remote
    \* ---- extract_and_upload_zip
    zip_names,        \* zip_file.namelist(): the entry names in archive order
    extract_dicom,    \* the extract_dicom argument
    zip_data,         \* the payload: "zip" | "not_zip" (BadZipFile on opening)
                      \* | "not_bytes" (another exception on opening)
    \* ---- upload_file: the name of the file
    file_name,        \* the file_name argument, a sequence of characters
    mime_type         \* mime_type, as detected from file_name

uploadVars == <<up_pc, file_data, file_size, folder_id, upload_id, offset, pos, result,
                file_result, up_exc, requests, next_upload_id, n_uploads>>

remoteVars == <<folders, next_folder_id, folder_calls>>

storeVars == <<girder_folder_id, files>>

callerVars == <<caller, cur_file, batch_pc, unsynced_files, idx, results,
                response, n_syncs>>

schemaVars == <<schema_pc, cur_node, folder_ids, prev_folder_ids, failures,
                prev_failures, n_runs>>

syncRaceVars == <<s_pc, s_rows, s_got, remote_files>>

raceVars == <<r_pc, r_name, r_parent, r_folder, syncRaceVars>>

zipVars == <<zip_names, extract_dicom, zip_data>>

mimeVars == <<file_name, mime_type>>

vars == <<uploadVars, remoteVars, storeVars, callerVars, schemaVars, raceVars,
          zipVars, mimeVars>>

\* ------------------------------------------------------------------------
\* Values

NoResult == [has_id |-> FALSE, id |-> 0, has_size |-> FALSE, size |-> 0,
             has_received |-> FALSE, received |-> 0, none |-> TRUE]

NoExc == [type |-> "none", what |-> "none", last_offset |-> 0, expected |-> 0]

\* raise GirderError(f"Failed to upload file: {str(e)}"), girder_client.py:404-409
TransportError == [type |-> "GirderError", what |-> "transport",
                   last_offset |-> 0, expected |-> 0]

\* upload["_id"] on an init response without "_id": not a RequestException
InitKeyError == [type |-> "KeyError", what |-> "init_id",
                 last_offset |-> 0, expected |-> 0]

\* raise GirderError(f"Upload did not complete. Last offset: {offset},
\*                     Expected: {file_size}..."), girder_client.py:395-396
IncompleteError(off, size) == [type |-> "GirderError", what |-> "incomplete",
                               last_offset |-> off, expected |-> size]

\* The JSON bodies a chunk request can be answered with: any combination of the
\* keys "received", "_id" and "size" (an absent key is normalised to 0).
\* The reported size is the declared size n or another one (n + 1); `received`
\* is any count from 0 to one block past the payload.
ChunkResponses(n) ==
    { [has_id |-> hi, id |-> IF hi THEN i ELSE 0,
       has_size |-> hs, size |-> IF hs THEN s ELSE 0,
       has_received |-> hr, received |-> IF hr THEN rc ELSE 0,
       none |-> FALSE] :
        hi \in BOOLEAN, i \in FileIds, hs \in BOOLEAN, s \in {n, n + 1},
        hr \in BOOLEAN, rc \in 0..(n + 1) }

\* one entry of the request log
InitRequest(size, parent_id, failed) ==
    [kind |-> "init", uploadId |-> 0, offset |-> 0, data |-> <<>>,
     size |-> size, parentId |-> parent_id, failed |-> failed, received |-> -1,
     name |-> file_name, mimeType |-> mime_type]

ChunkRequest(uid, off, data, failed, resp) ==
    [kind |-> "chunk", uploadId |-> uid, offset |-> off, data |-> data,
     size |-> 0, parentId |-> NULL, failed |-> failed,
     received |-> IF ~failed /\ resp.has_received THEN resp.received ELSE -1]

\* file_io.read(n) at cursor p: at most n blocks, fewer at the end of the stream
Read(data, p, n) == SubSeq(data, p + 1, Min(p + n, Len(data)))

\* ------------------------------------------------------------------------
\* The local store: one center with one patient, one visit and two document
\* types (database.py:20-70), and NFiles file records.

Nodes == 1..5

\* the girder folder name of each node: CHU_<code>, patient_id, visit_name,
\* document_name
NodeName == <<"CHU_A", "P1", "V1", "D1", "D2">>

\* center_id / patient_id / visit_id foreign keys
ParentNode == <<NULL, 1, 2, 3, 3>>

DocumentTypes == {4, 5}

\* the rows center -> patient -> visit -> document type that the joins of
\* get_unsynced_files and get_file_with_path_info follow
PathOf(doc) == <<ParentNode[ParentNode[ParentNode[doc]]],
                 ParentNode[ParentNode[doc]], ParentNode[doc], doc>>

\* files.document_type_id of record f
DocOf(f) == IF f % 2 = 1 THEN 4 ELSE 5

FileRows == 1..NFiles

\* database.py:247-259  create_file: synced_to_girder DEFAULT 0, girder_file_id
\* NULL
NewFile(f) == [document_type_id |-> DocOf(f), synced_to_girder |-> FALSE,
               girder_file_id |-> NULL]

\* a variant of MarkFileSynced that sets the flag and leaves the id
MarkFileSynced_FlagOnly(fls, file_id, girder_file_id) ==
    [fls EXCEPT ![file_id] = [@ EXCEPT !.synced_to_girder = TRUE]]

\* database.py:261-269  UPDATE files SET synced_to_girder = 1,
\* girder_file_id = ? WHERE id = ?
MarkFileSynced(fls, file_id, girder_file_id) ==
    [fls EXCEPT ![file_id] = [@ EXCEPT !.synced_to_girder = TRUE,
                                       !.girder_file_id = girder_file_id]]

\* database.py:281-301 and extract_sync.py:90-103: a file row joined with the
\* names and the stored folder ids of its four levels
FileInfo(fls, gfid, f) ==
    LET path == PathOf(fls[f].document_type_id) IN
    [id |-> f,
     synced_to_girder |-> fls[f].synced_to_girder,
     girder_file_id |-> fls[f].girder_file_id,
     names |-> [k \in 1..4 |-> NodeName[path[k]]],
     stored |-> [k \in 1..4 |-> gfid[path[k]]]]

RECURSIVE RowsFrom(_, _, _)
RowsFrom(fls, gfid, f) ==
    IF f > NFiles THEN <<>>
    ELSE (IF fls[f].synced_to_girder THEN <<>> ELSE <<FileInfo(fls, gfid, f)>>)
         \o RowsFrom(fls, gfid, f + 1)

\* extract_sync.py:66-109  get_unsynced_files: WHERE synced_to_girder = 0
\* ORDER BY uploaded_at ASC
GetUnsyncedFiles(fls, gfid) == RowsFrom(fls, gfid, 1)

\* database.py:303-344  get_document_folder_id: the stored id of the document
\* type row, None when NULL
GetDocumentFolderId(gfid, doc) == gfid[doc]

\* ------------------------------------------------------------------------
\* The remote folder service as girder_client.py sees it

FolderExists(fs, id) == \E f \in fs : f.id = id

Matches(fs, name, parent_id) ==
    {f \in fs : f.parentId = parent_id /\ f.name = name}

\* a variant of FirstMatch that takes the last folder of the remote's list
FirstMatch_Last(fs, name, parent_id) ==
    CHOOSE f \in Matches(fs, name, parent_id) :
        \A g \in Matches(fs, name, parent_id) : f.id >= g.id

\* the first folder of the remote's answer to GET /folder?parentId&name&limit=1
\* (the remote lists folders in the order of their ids)
FirstMatch(fs, name, parent_id) ==
    CHOOSE f \in Matches(fs, name, parent_id) :
        \A g \in Matches(fs, name, parent_id) : f.id <= g.id

\* girder_client.py:68-109  find_folder: folders[0] if folders else None
FindFolder(fs, name, parent_id) ==
    IF Matches(fs, name, parent_id) = {} THEN NULL
    ELSE FirstMatch(fs, name, parent_id).id

GetCall(k, id) ==
    [op |-> "get_folder_by_id", level |-> k, id |-> id, parentId |-> NULL,
     name |-> ""]

FindCall(k, name, parent_id) ==
    [op |-> "find_folder", level |-> k, id |-> NULL, parentId |-> parent_id,
     name |-> name]

CreateCall(k, name, parent_id) ==
    [op |-> "create_folder", level |-> k, id |-> NULL, parentId |-> parent_id,
     name |-> name]

\* a variant of CreateFolder in which the remote answers with the folder of
\* that name when the parent has one
CreateFolder_Unique(fs, new_id, name, parent_id) ==
    IF \E f \in fs : f.parentId = parent_id /\ f.name = name
    THEN fs
    ELSE fs \cup {[id |-> new_id, parentId |-> parent_id, name |-> name]}

\* girder_client.py:115-148  create_folder: the remote adds a folder under a
\* new id
CreateFolder(fs, new_id, name, parent_id) ==
    fs \cup {[id |-> new_id, parentId |-> parent_id, name |-> name]}

\* a variant of GetOrCreateFolder that does not look the folder up first
GetOrCreateFolder_AlwaysCreate(fs, new_id, k, name, parent_id, find_fails, create_fails) ==
    IF create_fails
    THEN [exc |-> "GirderError", id |-> NULL, folders |-> fs,
          created |-> FALSE, calls |-> <<CreateCall(k, name, parent_id)>>]
    ELSE [exc |-> "none", id |-> new_id,
          folders |-> CreateFolder(fs, new_id, name, parent_id),
          created |-> TRUE, calls |-> <<CreateCall(k, name, parent_id)>>]

\* girder_client.py:151-169  get_or_create_folder: find_folder, and
\* create_folder when it found none; a GirderError of either goes to the caller
GetOrCreateFolder(fs, new_id, k, name, parent_id, find_fails, create_fails) ==
    LET found == FindFolder(fs, name, parent_id)
        find_call == FindCall(k, name, parent_id)
    IN
    IF find_fails
    THEN [exc |-> "GirderError", id |-> NULL, folders |-> fs,
          created |-> FALSE, calls |-> <<find_call>>]
    ELSE IF found # NULL
    THEN [exc |-> "none", id |-> found, folders |-> fs,
          created |-> FALSE, calls |-> <<find_call>>]
    ELSE IF create_fails
    THEN [exc |-> "GirderError", id |-> NULL, folders |-> fs,
          created |-> FALSE,
          calls |-> <<find_call, CreateCall(k, name, parent_id)>>]
    ELSE [exc |-> "none", id |-> new_id,
          folders |-> CreateFolder(fs, new_id, name, parent_id),
          created |-> TRUE,
          calls |-> <<find_call, CreateCall(k, name, parent_id)>>]

\* Which requests of one resolution fail at transport or HTTP level: up to
\* MaxFailures of them, get_folder_by_id or find_folder of a level.
Oracles ==
    {o \in [get : [1..4 -> BOOLEAN], find : [1..4 -> BOOLEAN]] :
        Cardinality({k \in 1..4 : o.get[k]})
           + Cardinality({k \in 1..4 : o.find[k]}) <= MaxFailures}

\* ------------------------------------------------------------------------
\* find_girder_folder_path (extract_sync.py:112-221)

\* a variant of VerifiedId that takes a stored id without asking the remote
VerifiedId_Trusting(fs, stored, get_fails) == stored

\* extract_sync.py:146-152 (and 167-171, 185-189, 203-207): a stored id is
\* kept when get_folder_by_id answers, dropped on any GirderError
VerifiedId(fs, stored, get_fails) ==
    IF stored # NULL /\ FolderExists(fs, stored) /\ ~get_fails
    THEN stored ELSE NULL

\* The four steps, center to document type. parent_id is the id resolved for
\* the level above, chain the ids resolved so far, calls the requests sent.
RECURSIVE ResolveLevels(_, _, _, _, _, _, _)
ResolveLevels(fs, info, parent_id, k, oracle, chain, calls) ==
    IF k > 4
    THEN [exc |-> "none", level |-> 0, folder_id |-> parent_id,
          chain |-> chain, calls |-> calls]
    ELSE
    LET stored == info.stored[k]
        calls1 == IF stored # NULL THEN Append(calls, GetCall(k, stored))
                  ELSE calls
        verified == VerifiedId(fs, stored, oracle.get[k])
        calls2 == Append(calls1, FindCall(k, info.names[k], parent_id))
        found == FindFolder(fs, info.names[k], parent_id)
    IN
    IF verified # NULL
    THEN ResolveLevels(fs, info, verified, k + 1, oracle,
                       Append(chain, verified), calls1)
    ELSE IF oracle.find[k]
    THEN [exc |-> "GirderError", level |-> k, folder_id |-> NULL,
          chain |-> chain, calls |-> calls2]
    ELSE IF found = NULL
    THEN [exc |-> "ValueError", level |-> k, folder_id |-> NULL,
          chain |-> chain, calls |-> calls2]
    ELSE ResolveLevels(fs, info, found, k + 1, oracle,
                       Append(chain, found), calls2)

\* a variant of FindGirderFolderPath that asks the remote to create the level
\* it did not find
FindGirderFolderPath_Creating(fs, info, root_folder_id, oracle) ==
    LET r == ResolveLevels(fs, info, root_folder_id, 1, oracle, <<>>, <<>>) IN
    IF r.exc = "ValueError"
    THEN [r EXCEPT !.calls =
             Append(@, CreateCall(r.level, info.names[r.level],
                                  r.calls[Len(r.calls)].parentId))]
    ELSE r

\* extract_sync.py:112-221
FindGirderFolderPath(fs, info, root_folder_id, oracle) ==
    ResolveLevels(fs, info, root_folder_id, 1, oracle, <<>>, <<>>)

\* ------------------------------------------------------------------------
\* sync_single_file and extract_and_sync_files (extract_sync.py:224-383)

Msg(text, level) == [text |-> text, level |-> level]

NoResults == [total_files |-> 0, synced |-> 0, failed |-> 0, details |-> <<>>]

Reply(code, status, girder_file_id) ==
    [code |-> code, status |-> status, girder_file_id |-> girder_file_id]

\* a variant of RecordFile that ends the loop at the first failed file
RecordFile_StopOnFailure(success, message, girder_file_id) ==
    /\ results' =
          [results EXCEPT
              !.synced = IF success THEN @ + 1 ELSE @,
              !.failed = IF success THEN @ ELSE @ + 1,
              !.details = Append(@, [file_id |-> unsynced_files[idx].id,
                                     success |-> success,
                                     message |-> message,
                                     girder_file_id |-> girder_file_id])]
    /\ idx' = idx + 1
    /\ batch_pc' = IF idx >= Len(unsynced_files) \/ ~success
                   THEN "done" ELSE "running"

\* extract_sync.py:354-365  count the file and append its details entry; the
\* loop ends, and the summary is returned, after the last row
RecordFile(success, message, girder_file_id) ==
    /\ results' =
          [results EXCEPT
              !.synced = IF success THEN @ + 1 ELSE @,
              !.failed = IF success THEN @ ELSE @ + 1,
              !.details = Append(@, [file_id |-> unsynced_files[idx].id,
                                     success |-> success,
                                     message |-> message,
                                     girder_file_id |-> girder_file_id])]
    /\ idx' = idx + 1
    /\ batch_pc' = IF idx >= Len(unsynced_files) THEN "done" ELSE "running"

\* a variant of SyncSingleFileAfterUpload that marks the record whatever the
\* outcome of upload_file
SyncSingleFileAfterUpload_MarkAlways(ret, exc) ==
    /\ files' = MarkFileSynced(files, cur_file, ret.id)
    /\ IF exc.type = "none" /\ ret.has_id
       THEN RecordFile(TRUE, Msg("Successfully synced", 0), ret.id)
       ELSE RecordFile(FALSE,
               IF exc.type = "GirderError"
               THEN Msg("Failed to upload to Girder", 0)
               ELSE Msg("Unexpected error", 0),
               NULL)

\* extract_sync.py:270-290  what sync_single_file does with the outcome of
\* upload_file: girder_file['_id'], mark_file_synced, or one of the two
\* except clauses
SyncSingleFileAfterUpload(ret, exc) ==
    IF exc.type = "none" /\ ret.has_id
    THEN /\ files' = MarkFileSynced(files, cur_file, ret.id)
         /\ RecordFile(TRUE, Msg("Successfully synced", 0), ret.id)
    ELSE /\ UNCHANGED files
         /\ RecordFile(FALSE,
               IF exc.type = "GirderError"
               THEN Msg("Failed to upload to Girder", 0)
               ELSE Msg("Unexpected error", 0),
               NULL)

\* app.py:567-588  what sync_to_girder does with the outcome of upload_file
SyncToGirderAfterUpload(ret, exc) ==
    IF exc.type = "none" /\ ret.has_id
    THEN /\ files' = MarkFileSynced(files, cur_file, ret.id)
         /\ response' = [code |-> 200, status |-> "synced",
                         girder_file_id |-> ret.id]
    ELSE /\ UNCHANGED files
         /\ response' = [code |-> 500,
                         status |-> IF exc.type = "GirderError"
                                    THEN "Failed to upload to Girder"
                                    ELSE "Error syncing file",
                         girder_file_id |-> NULL]

\* ------------------------------------------------------------------------
\* upload_file (girder_client.py:222-409)

\* girder_client.py:305  if file_size <= CHUNK_SIZE  (single chunk)
IsSmall(size) == size <= CHUNK_SIZE

\* girder_client.py:333  chunk_size = min(CHUNK_SIZE, file_size - offset)
ChunkLen(off, size) == Min(CHUNK_SIZE, size - off)

\* a variant of ChunkData that seeks to the offset before it reads
ChunkData_Seek(data, p, off, size) == Read(data, off, ChunkLen(off, size))

\* girder_client.py:334  chunk_data = file_io.read(chunk_size)
ChunkData(data, p, off, size) == Read(data, p, ChunkLen(off, size))

\* a variant of NextOffset that adds `received` to the offset
NextOffset_Delta(off, chunk, resp) ==
    IF resp.has_received THEN off + resp.received ELSE off + Len(chunk)

\* girder_client.py:358-363  offset from the response if it has 'received',
\* else offset += len(chunk_data)
NextOffset(off, chunk, resp) ==
    IF resp.has_received THEN resp.received ELSE off + Len(chunk)

\* girder_client.py:366  if offset >= file_size
IsFinal(off, size) == off >= size

\* a variant of FinalResult that takes any final response as the file document
FinalResult_Unchecked(resp) == resp

\* girder_client.py:368-385  which final response becomes file_result: one with
\* '_id' and 'size', or (after the sleep) one with '_id' alone
FinalResult(resp) ==
    IF resp.has_id /\ resp.has_size THEN resp
    ELSE IF resp.has_id THEN resp
    ELSE NoResult

\* a variant of SizeAccepted for which a size mismatch is fatal
SizeAccepted_Strict(fr, size) == fr.has_size /\ fr.size = size

\* girder_client.py:398-400  a file_result whose size differs from file_size is
\* logged as a warning and kept
SizeAccepted(fr, size) == TRUE

\* girder_client.py:318  file_result = r.json(): the single-chunk answer is
\* taken as it is
SmallResult(resp) == resp

\* girder_client.py:331-337 the loop is left without a request when
\* offset >= file_size or when the stream has no more data
LoopSends(data, p, off, size) ==
    off < size /\ Len(ChunkData(data, p, off, size)) > 0

\* a path is the sequence of its characters
RECURSIVE LastIndexOf(_, _)
LastIndexOf(path, ch) ==
    IF path = <<>> THEN 0
    ELSE IF path[Len(path)] = ch THEN Len(path)
    ELSE LastIndexOf(SubSeq(path, 1, Len(path) - 1), ch)

\* pathlib drops the trailing separators of a path
RECURSIVE StripSlashes(_)
StripSlashes(path) ==
    IF path # <<>> /\ path[Len(path)] = "/"
    THEN StripSlashes(SubSeq(path, 1, Len(path) - 1))
    ELSE path

\* Path(path).name: the final component
PathName(path) ==
    LET stripped == StripSlashes(path) IN
    SubSeq(stripped, LastIndexOf(stripped, "/") + 1, Len(stripped))

\* Path(path).suffix: the final component from its last dot, when the dot
\* is neither its first nor its last character
PathSuffix(path) ==
    LET name == PathName(path)
        i == LastIndexOf(name, ".")
    IN
    IF 1 < i /\ i < Len(name) THEN SubSeq(name, i, Len(name)) ELSE <<>>

UpperLetters ==
    <<"A", "B", "C", "D", "E", "F", "G", "H", "I", "J", "K", "L", "M",
      "N", "O", "P", "Q", "R", "S", "T", "U", "V", "W", "X", "Y", "Z">>

LowerLetters ==
    <<"a", "b", "c", "d", "e", "f", "g", "h", "i", "j", "k", "l", "m",
      "n", "o", "p", "q", "r", "s", "t", "u", "v", "w", "x", "y", "z">>

\* str.lower() of one character
LowerChar(ch) ==
    IF \E i \in 1..26 : UpperLetters[i] = ch
    THEN LowerLetters[CHOOSE i \in 1..26 : UpperLetters[i] = ch]
    ELSE ch

Lower(str) == [i \in 1..Len(str) |-> LowerChar(str[i])]

\* girder_client.py:263-278  mime_map
mime_map ==
    { [ext |-> <<".", "d", "c", "m">>,
       mime |-> "application/dicom"],
      [ext |-> <<".", "d", "i", "c", "o", "m">>,
       mime |-> "application/dicom"],
      [ext |-> <<".", "j", "p", "g">>,
       mime |-> "image/jpeg"],
      [ext |-> <<".", "j", "p", "e", "g">>,
       mime |-> "image/jpeg"],
      [ext |-> <<".", "p", "n", "g">>,
       mime |-> "image/png"],
      [ext |-> <<".", "p", "d", "f">>,
       mime |-> "application/pdf"],
      [ext |-> <<".", "t", "x", "t">>,
       mime |-> "text/plain"],
      [ext |-> <<".", "c", "s", "v">>,
       mime |-> "text/csv"],
      [ext |-> <<".", "j", "s", "o", "n">>,
       mime |-> "application/json"],
      [ext |-> <<".", "z", "i", "p">>,
       mime |-> "application/zip"],
      [ext |-> <<".", "r", "a", "r">>,
       mime |-> "application/x-rar-compressed"],
      [ext |-> <<".", "7", "z">>,
       mime |-> "application/x-7z-compressed"],
      [ext |-> <<".", "t", "a", "r">>,
       mime |-> "application/x-tar"],
      [ext |-> <<".", "g", "z">>,
       mime |-> "application/gzip"] }

\* a variant of MimeType that looks the suffix up as it is written
MimeType_CaseSensitive(name) ==
    LET ext == PathSuffix(name) IN
    IF \E e \in mime_map : e.ext = ext
    THEN (CHOOSE e \in mime_map : e.ext = ext).mime
    ELSE "application/octet-stream"

\* girder_client.py:259-279  ext = Path(file_name).suffix.lower();
\* mime_type = mime_map.get(ext, 'application/octet-stream')
MimeType(name) ==
    LET ext == Lower(PathSuffix(name)) IN
    IF name # <<>> /\ \E e \in mime_map : e.ext = ext
    THEN (CHOOSE e \in mime_map : e.ext = ext).mime
    ELSE "application/octet-stream"

\* f.endswith('/')
EndsWithSlash(path) == path # <<>> /\ path[Len(path)] = "/"

\* girder_client.py:477  dicom_extensions = {'.dcm', '.dicom'}
dicom_extensions == {<<".", "d", "c", "m">>, <<".", "d", "i", "c", "o", "m">>}

\* girder_client.py:479-482  Path(f).suffix.lower() in dicom_extensions and
\* not f.endswith('/')
IsDicomEntry(path) ==
    Lower(PathSuffix(path)) \in dicom_extensions /\ ~EndsWithSlash(path)

\* girder_client.py:476-483  the entries that are attempted
FileList(names, dicom_only) ==
    IF dicom_only THEN SelectSeq(names, IsDicomEntry) ELSE names

\* extract_and_upload_zip returns uploaded_files (girder_client.py:487, 521)
\* or raises GirderError (523-528)
ZipOutcome(status, uploaded_files) ==
    [code |-> 0, status |-> status, uploaded_files |-> uploaded_files]

\* a variant of NextEntry that leaves the loop at an entry that failed
NextEntry_StopOnFailure(ok, uploaded) ==
    /\ results' = [uploaded_files |-> uploaded]
    /\ idx' = idx + 1
    /\ batch_pc' = IF idx >= Len(unsynced_files) \/ ~ok
                   THEN "done" ELSE "running"
    /\ response' = IF idx >= Len(unsynced_files) \/ ~ok
                   THEN ZipOutcome("returned", uploaded)
                   ELSE response

\* girder_client.py:490-521  the loop goes to the next entry, after an append
\* or after the continue of the except block; after the last entry
\* uploaded_files is returned
NextEntry(ok, uploaded) ==
    /\ results' = [uploaded_files |-> uploaded]
    /\ idx' = idx + 1
    /\ batch_pc' = IF idx >= Len(unsynced_files) THEN "done" ELSE "running"
    /\ response' = IF idx >= Len(unsynced_files)
                   THEN ZipOutcome("returned", uploaded)
                   ELSE response

\* girder_client.py:504-516  upload_file has returned or raised for the entry
\* file_list[idx]
ExtractAndUploadZipAfterUpload(ret, exc) ==
    LET file_path == unsynced_files[idx]
        ok == exc.type = "none" /\ ~ret.none
    IN
    NextEntry(ok,
        IF ok
        THEN Append(results.uploaded_files,
                    [name |-> PathName(file_path),
                     original_path |-> file_path,
                     id |-> IF ret.has_id THEN ret.id ELSE NULL,
                     size |-> IF ret.has_size THEN ret.size ELSE file_size])
        ELSE results.uploaded_files)

\* app.py:287-300  the response of upload_patient_files: failed_files is None
\* (NULL) when no file failed
UploadReply(pending, uploaded_files, failed_files) ==
    [code |-> 200, status |-> "synced",
     chu_folder |-> pending.chu_folder,
     patient_folder |-> pending.patient_folder,
     uploaded_files |-> uploaded_files,
     total_files |-> Len(uploaded_files),
     failed_files |-> IF failed_files = <<>> THEN NULL ELSE failed_files]

\* app.py:251-274  upload_file has returned or raised for files[idx]: the file
\* goes to uploaded_files or, on any exception (also the file_result.get of
\* a file_result that is None), to failed_files; after the last file the
\* response is sent
UploadPatientFilesAfterUpload(ret, exc) ==
    LET ok == exc.type = "none" /\ ~ret.none
        name == unsynced_files[idx].name
        uploaded == IF ok
                    THEN Append(results.uploaded_files,
                                [name |-> name,
                                 id |-> IF ret.has_id THEN ret.id ELSE NULL,
                                 size |-> IF ret.has_size THEN ret.size
                                          ELSE file_size])
                    ELSE results.uploaded_files
        failed == IF ok THEN results.failed_files
                  ELSE Append(results.failed_files, [name |-> name])
    IN
    /\ results' = [uploaded_files |-> uploaded, failed_files |-> failed]
    /\ idx' = idx + 1
    /\ batch_pc' = IF idx >= Len(unsynced_files) THEN "done" ELSE "running"
    /\ response' = IF idx >= Len(unsynced_files)
                   THEN UploadReply(response, uploaded, failed)
                   ELSE response

\* upload_file has returned ret (exc.type = "none") or raised exc: control is
\* back in the handler that called it, which runs to its own end.
ReturnTo(ret, exc) ==
    CASE caller = "sync_single_file" ->
              /\ SyncSingleFileAfterUpload(ret, exc)
              /\ UNCHANGED <<caller, cur_file, unsynced_files, response, n_syncs,
                             girder_folder_id>>
         [] caller = "sync_to_girder" ->
              /\ SyncToGirderAfterUpload(ret, exc)
              /\ UNCHANGED <<caller, cur_file, batch_pc, unsynced_files, idx,
                             results, n_syncs, girder_folder_id>>
         [] caller = "upload_patient_files" ->
              /\ UploadPatientFilesAfterUpload(ret, exc)
              /\ UNCHANGED <<caller, cur_file, unsynced_files, n_syncs,
                             storeVars>>
         [] caller = "extract_and_upload_zip" ->
              /\ ExtractAndUploadZipAfterUpload(ret, exc)
              /\ UNCHANGED <<caller, cur_file, unsynced_files, n_syncs,
                             storeVars>>
         [] OTHER ->
              UNCHANGED <<caller, cur_file, batch_pc, unsynced_files, idx,
                          results, response, n_syncs, storeVars>>

\* A call of upload_file(file_data, fid, filename) with a payload of n blocks
\* (file_data, file_size: girder_client.py:242-258); the init request is the
\* next step.
EnterUpload(n, fid) ==
    /\ up_pc' = "init"
    /\ file_data' = Payload(n)
    /\ file_size' = n
    /\ folder_id' = fid
    /\ upload_id' = 0
    /\ offset' = 0
    /\ pos' = 0
    /\ result' = NoResult
    /\ file_result' = NoResult
    /\ up_exc' = NoExc
    /\ requests' = <<>>
    /\ UNCHANGED next_upload_id

\* a handler starts: the locals of an earlier upload_file call are gone
NoUpload ==
    /\ up_pc' = "idle"
    /\ file_data' = <<>>
    /\ file_size' = 0
    /\ folder_id' = NULL
    /\ upload_id' = 0
    /\ offset' = 0
    /\ pos' = 0
    /\ result' = NoResult
    /\ file_result' = NoResult
    /\ up_exc' = NoExc
    /\ requests' = <<>>
    /\ UNCHANGED next_upload_id

\* the locals of upload_file after a request
Locals(uid, off, p, res, reqs) ==
    /\ upload_id' = uid
    /\ offset' = off
    /\ pos' = p
    /\ result' = res
    /\ requests' = reqs

\* upload_file goes on to its next request: the handler that called it waits
Continue(pc, uid, off, p, res, reqs) ==
    /\ up_pc' = pc
    /\ Locals(uid, off, p, res, reqs)
    /\ UNCHANGED <<file_result, up_exc, storeVars, callerVars>>

\* upload_file returns file_result (girder_client.py:403) or raises exc. A
\* direct call is observed with the locals it ended with; a sync handler gets
\* the result or the exception, and of the call only the last response stays
\* on view.
Leave(uid, off, p, res, reqs, ret, exc) ==
    /\ up_pc' = IF exc.type = "none" THEN "returned" ELSE "raised"
    /\ file_result' = ret
    /\ up_exc' = exc
    /\ IF caller = "direct"
       THEN Locals(uid, off, p, res, reqs)
       ELSE Locals(0, 0, 0, res, <<>>)
    /\ ReturnTo(ret, exc)

\* a variant of OnTransportFailure that sends the request again
OnTransportFailure_Retry(uid, off, p, reqs) ==
    Continue(up_pc, uid, off, p, result, reqs)

\* girder_client.py:404-409  a RequestException of any request of the try block
\* becomes GirderError; nothing is sent again
OnTransportFailure(uid, off, p, reqs) ==
    Leave(uid, off, p, result, reqs, NoResult, TransportError)

\* no handler is running
Idle ==
    /\ up_pc \in {"idle", "returned", "raised"}
    /\ batch_pc # "running"

\* the caller: a direct call of upload_file(bytes, folder_id, file_name)
UploadFile ==
    /\ UNCHANGED <<raceVars, zipVars, mimeVars>>
    /\ Idle
    /\ n_uploads < MaxUploads
    /\ n_uploads' = n_uploads + 1
    /\ \E n \in FileSizes : EnterUpload(n, ROOT_FOLDER_ID)
    /\ UNCHANGED <<remoteVars, storeVars, callerVars, schemaVars>>

\* str.upper() of one character
UpperChar(ch) ==
    IF \E i \in 1..26 : LowerLetters[i] = ch
    THEN UpperLetters[CHOOSE i \in 1..26 : LowerLetters[i] = ch]
    ELSE ch

Upper(str) == [i \in 1..Len(str) |-> UpperChar(str[i])]

\* the endings of the file names: the keys of mime_map, an extension that is
\* no key, a final dot and no ending
NameEndings ==
    {e.ext : e \in mime_map} \cup {<<".", "x", "y", "z">>, <<".">>, <<>>}

\* what precedes the ending: a plain stem, stems with an extension of their
\* own, and nothing (a name that starts with its dot)
NameStems ==
    {<<"a">>, <<"a", ".", "t", "a", "r">>, <<"a", ".", "x">>, <<>>}

\* the file names upload_file is called with, endings in lower and upper case
FileNames ==
    {stem \o ending : stem \in NameStems, ending \in NameEndings}
       \cup {stem \o Upper(ending) : stem \in NameStems, ending \in NameEndings}

\* the caller: a direct call of upload_file(bytes, folder_id, file_name) with
\* a payload of one chunk; girder_client.py:259-279 detects mime_type
UploadNamedFile ==
    /\ UNCHANGED <<raceVars, zipVars>>
    /\ Idle
    /\ n_uploads < MaxUploads
    /\ n_uploads' = n_uploads + 1
    /\ \E name \in FileNames \ {<<>>} :
          /\ file_name' = name
          /\ mime_type' = MimeType(name)
    /\ EnterUpload(CHUNK_SIZE - 1, ROOT_FOLDER_ID)
    /\ UNCHANGED <<remoteVars, storeVars, callerVars, schemaVars>>

\* Step 1, girder_client.py:285-299: POST /file
UploadInit ==
    /\ UNCHANGED <<raceVars, zipVars, mimeVars>>
    /\ up_pc = "init"
    /\ UNCHANGED <<remoteVars, file_data, file_size, folder_id, n_uploads,
                   schemaVars>>
    /\ \/ \* the request fails
          /\ OnTransportFailure(upload_id, offset, pos,
                Append(requests, InitRequest(file_size, folder_id, TRUE)))
          /\ UNCHANGED next_upload_id
       \/ \* the response has no "_id": upload["_id"] raises KeyError
          /\ Leave(upload_id, offset, pos, result,
                Append(requests, InitRequest(file_size, folder_id, FALSE)),
                NoResult, InitKeyError)
          /\ next_upload_id' = next_upload_id + 1
       \/ \* upload_id = upload["_id"]
          /\ Continue(IF IsSmall(file_size) THEN "small" ELSE "loop",
                next_upload_id + 1, 0, 0, result,
                Append(requests, InitRequest(file_size, folder_id, FALSE)))
          /\ next_upload_id' = next_upload_id + 1

\* girder_client.py:305-318: the whole payload in one chunk at offset 0
UploadSmallChunk ==
    /\ UNCHANGED <<raceVars, zipVars, mimeVars>>
    /\ up_pc = "small"
    /\ UNCHANGED <<remoteVars, file_data, file_size, folder_id, n_uploads,
                   next_upload_id, schemaVars>>
    /\ \/ OnTransportFailure(upload_id, offset, pos,
             Append(requests,
                ChunkRequest(upload_id, 0, file_data, TRUE, NoResult)))
       \/ \E resp \in ChunkResponses(file_size) :
             Leave(upload_id, offset, pos, resp,
                Append(requests,
                   ChunkRequest(upload_id, 0, file_data, FALSE, resp)),
                SmallResult(resp), NoExc)

\* girder_client.py:331-396: one pass of the while loop, from the read of the
\* chunk to the next request, the return or the raise
UploadLargeChunk ==
    /\ UNCHANGED <<raceVars, zipVars, mimeVars>>
    /\ up_pc = "loop"
    /\ UNCHANGED <<remoteVars, file_data, file_size, folder_id, n_uploads,
                   next_upload_id, schemaVars>>
    /\ LET chunk_data == ChunkData(file_data, pos, offset, file_size)
           pos2 == pos + Len(chunk_data)
       IN
       \/ OnTransportFailure(upload_id, offset, pos2,
             Append(requests,
                ChunkRequest(upload_id, offset, chunk_data, TRUE, NoResult)))
       \/ \E resp \in ChunkResponses(file_size) :
          LET off2 == NextOffset(offset, chunk_data, resp)
              reqs == Append(requests,
                         ChunkRequest(upload_id, offset, chunk_data, FALSE, resp))
          IN
          IF IsFinal(off2, file_size)
          THEN IF FinalResult(resp).none
                  \/ ~SizeAccepted(FinalResult(resp), file_size)
               THEN Leave(upload_id, off2, pos2, resp, reqs,
                          NoResult, IncompleteError(off2, file_size))
               ELSE Leave(upload_id, off2, pos2, resp, reqs,
                          FinalResult(resp), NoExc)
          ELSE IF LoopSends(file_data, pos2, off2, file_size)
               THEN \* result is not read again before the next response
                    \* replaces it
                    Continue("loop", upload_id, off2, pos2, NoResult, reqs)
               ELSE Leave(upload_id, off2, pos2, resp, reqs,
                          NoResult, IncompleteError(off2, file_size))

\* ------------------------------------------------------------------------
\* The handlers that sync a file record

\* the sizes of the files on disk that the sync handlers read: one that goes
\* out in a single chunk and one that takes the loop
SyncSizes == {CHUNK_SIZE - 1, CHUNK_SIZE + 1}

\* extract_sync.py:293-342  extract_and_sync_files up to the first file: the
\* rows are read once; with none the summary of zeros is returned at once
ExtractAndSyncFiles ==
    /\ UNCHANGED <<raceVars, zipVars, mimeVars>>
    /\ Idle
    /\ n_syncs < MaxSyncRuns
    /\ n_syncs' = n_syncs + 1
    /\ LET rows == GetUnsyncedFiles(files, girder_folder_id) IN
       /\ unsynced_files' = rows
       /\ results' = [total_files |-> Len(rows), synced |-> 0, failed |-> 0,
                      details |-> <<>>]
       /\ idx' = 1
       /\ batch_pc' = IF rows = <<>> THEN "done" ELSE "running"
    /\ folder_calls' = <<>>
    /\ caller' = "sync_single_file"
    /\ cur_file' = NULL
    /\ response' = Reply(0, "none", NULL)
    /\ NoUpload
    /\ UNCHANGED <<folders, next_folder_id, storeVars, n_uploads, schemaVars>>

\* a variant of NotOnDisk in which the folders of the file are looked up
\* before the file is looked for on disk
NotOnDisk_AfterLookup ==
    /\ RecordFile(FALSE, Msg("File not found on disk", 0), NULL)
    /\ folder_calls' =
          FindGirderFolderPath(folders, unsynced_files[idx], ROOT_FOLDER_ID,
                               [get |-> [k \in 1..4 |-> FALSE],
                                find |-> [k \in 1..4 |-> FALSE]]).calls
    /\ NoUpload

\* extract_sync.py:251-255  if not file_path.exists(): return False,
\* error_msg, None
NotOnDisk ==
    /\ RecordFile(FALSE, Msg("File not found on disk", 0), NULL)
    /\ folder_calls' = <<>>
    /\ NoUpload

\* extract_sync.py:344-352 and 246-272  the next row of the loop: sync_single_file
\* from the disk check to the call of upload_file
SyncSingleFile ==
    /\ UNCHANGED <<raceVars, zipVars, mimeVars>>
    /\ batch_pc = "running"
    /\ up_pc \in {"idle", "returned", "raised"}
    /\ LET file_info == unsynced_files[idx] IN
       /\ cur_file' = file_info.id
       /\ \/ NotOnDisk
          \/ \E oracle \in Oracles :
             LET path == FindGirderFolderPath(folders, file_info,
                                              ROOT_FOLDER_ID, oracle)
             IN
             /\ folder_calls' = path.calls
             /\ IF path.exc = "ValueError"
                THEN \* extract_sync.py:260-263
                     /\ RecordFile(FALSE,
                           Msg("not found in Girder", path.level), NULL)
                     /\ NoUpload
                ELSE IF path.exc = "GirderError"
                THEN \* extract_sync.py:287-290
                     /\ RecordFile(FALSE, Msg("Unexpected error", 0), NULL)
                     /\ NoUpload
                ELSE \* extract_sync.py:266-272
                     /\ \E n \in SyncSizes : EnterUpload(n, path.folder_id)
                     /\ UNCHANGED <<results, idx, batch_pc>>
    /\ UNCHANGED <<folders, next_folder_id, storeVars, caller, unsynced_files,
                   response, n_syncs, n_uploads, schemaVars>>

\* app.py:535-556  the target folder of sync_to_girder: the stored id of the
\* document type, which must answer get_folder_by_id
StoredDocFolder(fs, gfid, doc, get_fails) ==
    LET doc_folder_id == GetDocumentFolderId(gfid, doc) IN
    IF doc_folder_id = NULL
    THEN [ok |-> FALSE, folder_id |-> NULL, calls |-> <<>>,
          status |-> "Folder structure not found in database"]
    ELSE IF ~FolderExists(fs, doc_folder_id) \/ get_fails
    THEN [ok |-> FALSE, folder_id |-> NULL,
          calls |-> <<GetCall(4, doc_folder_id)>>,
          status |-> "Folder exists in database but not in Girder"]
    ELSE [ok |-> TRUE, folder_id |-> doc_folder_id,
          calls |-> <<GetCall(4, doc_folder_id)>>, status |-> "ok"]

\* a variant of AlreadySyncedReply that leaves the remote file id out
AlreadySyncedReply_NoId(fls, file_id) == Reply(200, "already_synced", NULL)

\* app.py:522-526  the answer for a record that is already synced
AlreadySyncedReply(fls, file_id) ==
    Reply(200, "already_synced", fls[file_id].girder_file_id)

\* a variant of AlreadySynced that never sees the flag
AlreadySynced_Never(fls, file_id) == FALSE

\* app.py:521  if file_info.get('synced_to_girder')
AlreadySynced(fls, file_id) == fls[file_id].synced_to_girder

\* app.py:501-567  POST /api/sync-to-girder up to the call of upload_file
SyncToGirder ==
    /\ UNCHANGED <<raceVars, zipVars, mimeVars>>
    /\ Idle
    /\ n_syncs < MaxSyncRuns
    /\ n_syncs' = n_syncs + 1
    /\ caller' = "sync_to_girder"
    /\ batch_pc' = "idle"
    /\ unsynced_files' = <<>>
    /\ idx' = 1
    /\ results' = NoResults
    /\ \E file_id \in 1..(NFiles + 1) :
       /\ cur_file' = file_id
       /\ IF file_id \notin FileRows
          THEN \* app.py:516-518
               /\ response' = Reply(404, "File not found", NULL)
               /\ folder_calls' = <<>>
               /\ NoUpload
          ELSE IF AlreadySynced(files, file_id)
          THEN \* app.py:521-526
               /\ response' = AlreadySyncedReply(files, file_id)
               /\ folder_calls' = <<>>
               /\ NoUpload
          ELSE
          \E get_fails \in BOOLEAN :
          LET target == StoredDocFolder(folders, girder_folder_id,
                            files[file_id].document_type_id, get_fails)
          IN
          /\ folder_calls' = target.calls
          /\ IF ~target.ok
             THEN \* app.py:543-556
                  /\ response' = Reply(404, target.status, NULL)
                  /\ NoUpload
             ELSE \/ \* app.py:559-561
                     /\ response' = Reply(404, "File not found on disk", NULL)
                     /\ NoUpload
                  \/ \* app.py:563-567
                     /\ \E n \in SyncSizes : EnterUpload(n, target.folder_id)
                     /\ response' = Reply(0, "pending", NULL)
    /\ UNCHANGED <<folders, next_folder_id, storeVars, n_uploads, schemaVars>>

\* ------------------------------------------------------------------------
\* create_girder_schema (scripts/create_girder_schema.py:76-237)

\* the level of a node: 1 center, 2 patient, 3 visit, 4 document type
LevelOf(n) == <<1, 2, 3, 4, 4>>[n]

\* a variant of StoreFolderId without the test of the stored id
StoreFolderId_Overwrite(gfid, n, id) == [gfid EXCEPT ![n] = id]

\* create_girder_schema.py:119-127 (152-160, 186-194, 220-228)
\* if not node.get('girder_folder_id'): UPDATE ... SET girder_folder_id = ?
StoreFolderId(gfid, n, id) ==
    IF gfid[n] = NULL THEN [gfid EXCEPT ![n] = id] ELSE gfid

\* create_girder_schema.py:83-96  a run starts: the structure is read
CreateGirderSchema ==
    /\ UNCHANGED <<raceVars, zipVars, mimeVars>>
    /\ schema_pc \in {"idle", "done"}
    /\ n_runs < MaxSchemaRuns
    /\ n_runs' = n_runs + 1
    /\ schema_pc' = "running"
    /\ cur_node' = 1
    /\ prev_folder_ids' = folder_ids
    /\ folder_ids' = [n \in Nodes |-> NULL]
    /\ prev_failures' = failures
    /\ failures' = 0
    /\ folder_calls' = <<>>
    /\ caller' = "create_girder_schema"
    /\ response' = Reply(0, "none", NULL)
    /\ UNCHANGED <<folders, next_folder_id, storeVars, uploadVars, cur_file,
                   batch_pc, unsynced_files, idx, results, n_syncs>>

\* a variant of Skipped that leaves out every node that comes after a failed
\* one
Skipped_AfterAnyFailure(ids, n) ==
    \E m \in 1..(n - 1) : ids[m] = NULL

\* create_girder_schema.py:130-132 (and 163-165, 197-199): `continue` in the
\* except branch of a node leaves out the loops nested under it, so a node is
\* not visited when this run has no folder for its parent
Skipped(ids, n) ==
    ParentNode[n] # NULL /\ ids[ParentNode[n]] = NULL

\* create_girder_schema.py:99-233  the next node of the traversal: skipped
\* when the folder of its parent failed (continue), else get_or_create_folder
\* under the folder this run got for the parent, and the UPDATE of the stored
\* id when the node has none
SchemaNode ==
    /\ UNCHANGED <<raceVars, zipVars, mimeVars>>
    /\ schema_pc = "running"
    /\ cur_node' = cur_node + 1
    /\ schema_pc' = IF cur_node = Len(NodeName) THEN "done" ELSE "running"
    /\ LET n == cur_node
           parent == ParentNode[n]
           parent_id == IF parent = NULL THEN ROOT_FOLDER_ID
                        ELSE folder_ids[parent]
       IN
       IF Skipped(folder_ids, n)
       THEN UNCHANGED <<folder_ids, failures, remoteVars, storeVars>>
       ELSE \E find_fails \in BOOLEAN, create_fails \in BOOLEAN :
            LET got == GetOrCreateFolder(folders, next_folder_id, LevelOf(n),
                          NodeName[n], parent_id, find_fails, create_fails)
            IN
            /\ (got.exc # "none") => failures < MaxFailures
            /\ failures' = IF got.exc # "none" THEN failures + 1 ELSE failures
            /\ folders' = got.folders
            /\ next_folder_id' = IF got.created THEN next_folder_id + 1
                                 ELSE next_folder_id
            /\ folder_calls' = folder_calls \o got.calls
            /\ folder_ids' = [folder_ids EXCEPT ![n] = got.id]
            /\ girder_folder_id' =
                  IF got.exc = "none"
                  THEN StoreFolderId(girder_folder_id, n, got.id)
                  ELSE girder_folder_id
            /\ UNCHANGED files
    /\ UNCHANGED <<prev_folder_ids, prev_failures, n_runs, uploadVars,
                   callerVars>>

\* ------------------------------------------------------------------------
\* redcap_webhook (app.py:75-170) and the folder steps it shares with
\* upload_patient_files (app.py:194-242)

\* the center folder names and patient ids a request can carry
HookCenters == {NodeName[1], "CHU_B"}
HookPatients == {NodeName[2], "P2"}

AccessCall(k, id, failed) ==
    [op |-> "set_folder_access", level |-> k, id |-> id, parentId |-> NULL,
     name |-> "", failed |-> failed]

MetadataCall(k, id, failed) ==
    [op |-> "set_metadata", level |-> k, id |-> id, parentId |-> NULL,
     name |-> "", failed |-> failed]

\* Which of the requests of the folder steps fail: the find_folder,
\* create_folder and set_folder_access of the center (1) and of the patient
\* (2), and set_metadata; up to MaxFailures of them.
HookOracles ==
    {o \in [find : [1..2 -> BOOLEAN], create : [1..2 -> BOOLEAN],
            access : [1..2 -> BOOLEAN], metadata : BOOLEAN] :
        Cardinality({k \in 1..2 : o.find[k]})
           + Cardinality({k \in 1..2 : o.create[k]})
           + Cardinality({k \in 1..2 : o.access[k]})
           + (IF o.metadata THEN 1 ELSE 0) <= MaxFailures}

HookFailure(detail, fs, new_id, calls) ==
    [ok |-> FALSE, code |-> 500, detail |-> detail, chu_id |-> NULL,
     patient_id |-> NULL, folders |-> fs, next_id |-> new_id, calls |-> calls]

\* a variant of AfterAccess in which a failed set_folder_access is not caught
AfterAccess_Fatal(access_fails, got) ==
    IF access_fails THEN [got EXCEPT !.exc = "GirderError"] ELSE got

\* app.py:98-102, 116-121  try: set_folder_access(...) except GirderError:
\* warning; the folder that get_or_create_folder returned is kept
AfterAccess(access_fails, got) == got

\* app.py:92-140 (and 194-242)  Step 1 center folder, Step 2 patient folder,
\* Step 3 patient metadata
ResolvePatientFolder(fs, new_id, center_name, patient_name, o) ==
    LET got1 == GetOrCreateFolder(fs, new_id, 1, center_name, ROOT_FOLDER_ID,
                                  o.find[1], o.create[1])
        new_id1 == IF got1.created THEN new_id + 1 ELSE new_id
        calls1 == got1.calls \o
                  (IF got1.exc = "none"
                   THEN <<AccessCall(1, got1.id, o.access[1])>> ELSE <<>>)
        chu == IF got1.exc = "none" THEN AfterAccess(o.access[1], got1)
               ELSE got1
    IN
    IF chu.exc # "none"
    THEN HookFailure("Failed to access CHU folder", got1.folders, new_id1,
                     calls1)
    ELSE
    LET got2 == GetOrCreateFolder(got1.folders, new_id1, 2, patient_name,
                                  chu.id, o.find[2], o.create[2])
        new_id2 == IF got2.created THEN new_id1 + 1 ELSE new_id1
        calls2 == calls1 \o got2.calls \o
                  (IF got2.exc = "none"
                   THEN <<AccessCall(2, got2.id, o.access[2])>> ELSE <<>>)
        patient == IF got2.exc = "none" THEN AfterAccess(o.access[2], got2)
                   ELSE got2
    IN
    IF patient.exc # "none"
    THEN HookFailure("Failed to access patient folder", got2.folders, new_id2,
                     calls2)
    ELSE IF o.metadata
    THEN HookFailure("Failed to set patient metadata", got2.folders, new_id2,
                     Append(calls2, MetadataCall(2, patient.id, TRUE)))
    ELSE [ok |-> TRUE, code |-> 200, detail |-> "synced",
          chu_id |-> chu.id, patient_id |-> patient.id,
          folders |-> got2.folders, next_id |-> new_id2,
          calls |-> Append(calls2, MetadataCall(2, patient.id, FALSE))]

\* app.py:142-160 the JSON response, or the HTTPException
HookReply(r, center_name, patient_name) ==
    [code |-> r.code, status |-> r.detail,
     chu_folder |-> [name |-> center_name, id |-> r.chu_id],
     patient_folder |-> [name |-> patient_name, id |-> r.patient_id]]

\* app.py:75-170  POST /redcap/webhook
RedcapWebhook ==
    /\ UNCHANGED <<raceVars, zipVars, mimeVars>>
    /\ Idle
    /\ schema_pc # "running"
    /\ n_syncs < MaxHooks
    /\ n_syncs' = n_syncs + 1
    /\ \E center_name \in HookCenters, patient_name \in HookPatients,
          o \in HookOracles :
       LET r == ResolvePatientFolder(folders, next_folder_id, center_name,
                                     patient_name, o)
       IN
       /\ folders' = r.folders
       /\ next_folder_id' = r.next_id
       /\ folder_calls' = r.calls
       /\ response' = HookReply(r, center_name, patient_name)
    /\ caller' = "redcap_webhook"
    /\ cur_file' = NULL
    /\ batch_pc' = "idle"
    /\ unsynced_files' = <<>>
    /\ idx' = 1
    /\ results' = NoResults
    /\ NoUpload
    /\ UNCHANGED <<storeVars, n_uploads, schemaVars>>

\* test_webhook.py:18-61  TEST_PATIENTS: patients of two centers
TEST_PATIENTS ==
    { [center_code |-> "A", patient_id |-> "P1"],
      [center_code |-> "A", patient_id |-> "P2"],
      [center_code |-> "B", patient_id |-> "P1"],
      [center_code |-> "B", patient_id |-> "P2"] }

\* app.py:93  chu_folder_name = f"CHU_{patient.center_code}"
ChuFolderName(center_code) == "CHU_" \o center_code

\* test_webhook.py:107-136  run_tests up to the first request: the records
\* to send, in any order and number up to MaxSends
RunTests ==
    /\ UNCHANGED <<raceVars, zipVars, mimeVars>>
    /\ Idle
    /\ schema_pc # "running"
    /\ n_syncs < MaxHooks
    /\ n_syncs' = n_syncs + 1
    /\ caller' = "run_tests"
    /\ \E n \in 1..MaxSends : \E patients \in [1..n -> TEST_PATIENTS] :
          unsynced_files' = patients
    /\ batch_pc' = "running"
    /\ idx' = 1
    /\ results' = [success |-> 0, failed |-> 0, details |-> <<>>]
    /\ response' = Reply(0, "none", NULL)
    /\ cur_file' = NULL
    /\ folder_calls' = <<>>
    /\ NoUpload
    /\ UNCHANGED <<folders, next_folder_id, storeVars, n_uploads, schemaVars>>

\* test_webhook.py:138-162  send_webhook(patient): redcap_webhook handles the
\* record, and its response is counted and kept in results["details"]
SendWebhook ==
    /\ UNCHANGED <<raceVars, zipVars, mimeVars>>
    /\ caller = "run_tests"
    /\ batch_pc = "running"
    /\ \E o \in HookOracles :
       LET patient == unsynced_files[idx]
           chu_folder_name == ChuFolderName(patient.center_code)
           r == ResolvePatientFolder(folders, next_folder_id, chu_folder_name,
                                     patient.patient_id, o)
           reply == HookReply(r, chu_folder_name, patient.patient_id)
       IN
       /\ folders' = r.folders
       /\ next_folder_id' = r.next_id
       /\ folder_calls' = r.calls
       /\ response' = reply
       /\ results' = [success |-> results.success + (IF r.ok THEN 1 ELSE 0),
                      failed |-> results.failed + (IF r.ok THEN 0 ELSE 1),
                      details |-> Append(results.details,
                                         [patient |-> patient,
                                          success |-> reply.code = 200,
                                          response |-> reply])]
    /\ idx' = idx + 1
    /\ batch_pc' = IF idx >= Len(unsynced_files) THEN "done" ELSE "running"
    /\ UNCHANGED <<uploadVars, storeVars, caller, cur_file, unsynced_files,
                   n_syncs, schemaVars>>

\* app.py:173-242  POST /redcap/upload up to the first file: the folder steps
\* of the webhook, then the loop over the files of the form
UploadPatientFiles ==
    /\ UNCHANGED <<raceVars, zipVars, mimeVars>>
    /\ Idle
    /\ schema_pc # "running"
    /\ n_syncs < MaxHooks
    /\ n_syncs' = n_syncs + 1
    /\ \E center_name \in HookCenters, patient_name \in HookPatients,
          o \in HookOracles, n_files \in 1..NFiles :
       LET r == ResolvePatientFolder(folders, next_folder_id, center_name,
                                     patient_name, o)
           reply == HookReply(r, center_name, patient_name)
       IN
       /\ folders' = r.folders
       /\ next_folder_id' = r.next_id
       /\ folder_calls' = r.calls
       /\ unsynced_files' = IF r.ok THEN [i \in 1..n_files |-> [name |-> i]]
                            ELSE <<>>
       /\ batch_pc' = IF r.ok THEN "running" ELSE "idle"
       /\ response' = IF r.ok
                      THEN [reply EXCEPT !.code = 0, !.status = "pending"]
                      ELSE reply
    /\ caller' = "upload_patient_files"
    /\ cur_file' = NULL
    /\ idx' = 1
    /\ results' = [uploaded_files |-> <<>>, failed_files |-> <<>>]
    /\ NoUpload
    /\ UNCHANGED <<storeVars, n_uploads, schemaVars>>

\* app.py:247-260  the next file of the form goes to upload_file with the
\* patient folder as its target
UploadPatientFile ==
    /\ UNCHANGED <<raceVars, zipVars, mimeVars>>
    /\ caller = "upload_patient_files"
    /\ batch_pc = "running"
    /\ up_pc \in {"idle", "returned", "raised"}
    /\ \E n \in SyncSizes : EnterUpload(n, response.patient_folder.id)
    /\ UNCHANGED <<remoteVars, storeVars, callerVars, n_uploads, schemaVars>>

\* ------------------------------------------------------------------------
\* extract_and_upload_zip (girder_client.py:442-528)

\* the entry names of the archives: files with a DICOM suffix in lower and in
\* upper case, a nested one, a text file and a directory with a DICOM suffix
EntryNames ==
    { <<"a", ".", "d", "c", "m">>,
      <<"B", ".", "D", "C", "M">>,
      <<"f", "/", "c", ".", "d", "i", "c", "o", "m">>,
      <<"d", ".", "t", "x", "t">>,
      <<"e", ".", "d", "c", "m", "/">> }

\* the archives: up to MaxEntries entries, no name twice
Archives ==
    UNION { {a \in [1..n -> EntryNames] :
                \A i \in 1..n, j \in 1..n : a[i] = a[j] => i = j} :
            n \in 0..MaxEntries }

\* the payloads extract_and_upload_zip is called with
ZipPayloads == {"zip", "not_zip", "not_bytes"}

\* a variant of OpenArchive that reports every failure as the generic one
OpenArchive_Generic(data) ==
    IF data = "zip" THEN "opened" ELSE "Failed to extract ZIP archive"

\* girder_client.py:469, 523-528  zipfile.ZipFile(io.BytesIO(zip_data)):
\* BadZipFile becomes GirderError "Invalid ZIP file format", any other
\* exception GirderError "Failed to extract ZIP archive"
OpenArchive(data) ==
    CASE data = "zip" -> "opened"
      [] data = "not_zip" -> "Invalid ZIP file format"
      [] OTHER -> "Failed to extract ZIP archive"

\* girder_client.py:462-487  the call up to the first entry: the archive is
\* opened, the names are listed and filtered; with no entry left [] is
\* returned
ExtractAndUploadZip ==
    /\ UNCHANGED <<raceVars, mimeVars>>
    /\ Idle
    /\ n_syncs < MaxZips
    /\ n_syncs' = n_syncs + 1
    /\ caller' = "extract_and_upload_zip"
    /\ cur_file' = NULL
    /\ idx' = 1
    /\ results' = [uploaded_files |-> <<>>]
    /\ NoUpload
    /\ \E data \in ZipPayloads, names \in Archives, dicom_only \in BOOLEAN :
          LET file_list == FileList(names, dicom_only)
              valid == OpenArchive(data) = "opened"
          IN
          /\ zip_data' = data
          /\ zip_names' = IF valid THEN names ELSE <<>>
          /\ extract_dicom' = dicom_only
          /\ unsynced_files' = IF valid THEN file_list ELSE <<>>
          /\ batch_pc' = IF valid /\ file_list # <<>> THEN "running"
                         ELSE IF valid THEN "done" ELSE "idle"
          /\ response' = IF ~valid
                         THEN ZipOutcome(OpenArchive(data), <<>>)
                         ELSE IF file_list = <<>>
                         THEN ZipOutcome("returned", <<>>)
                         ELSE ZipOutcome("pending", <<>>)
    /\ UNCHANGED <<remoteVars, storeVars, n_uploads, schemaVars>>

\* girder_client.py:490-504  the next entry: zip_file.read raises, or the
\* entry has no final component, or its bytes go to upload_file
ZipEntry ==
    /\ UNCHANGED <<raceVars, zipVars, mimeVars>>
    /\ caller = "extract_and_upload_zip"
    /\ batch_pc = "running"
    /\ up_pc \in {"idle", "returned", "raised"}
    /\ \/ \* zip_file.read(file_path) raises: except Exception, continue
          /\ NextEntry(FALSE, results.uploaded_files)
          /\ NoUpload
          /\ UNCHANGED <<caller, cur_file, unsynced_files, n_syncs>>
       \/ IF PathName(unsynced_files[idx]) = <<>>
          THEN \* if not file_name: continue
               /\ NextEntry(FALSE, results.uploaded_files)
               /\ NoUpload
               /\ UNCHANGED <<caller, cur_file, unsynced_files, n_syncs>>
          ELSE /\ \E n \in SyncSizes : EnterUpload(n, ROOT_FOLDER_ID)
               /\ UNCHANGED callerVars
    /\ UNCHANGED <<remoteVars, storeVars, n_uploads, schemaVars>>

\* ------------------------------------------------------------------------
\* get_or_create_folder (girder_client.py:151-169) called by two callers at
\* the same time: find_folder and create_folder are two requests, and the
\* requests of the other caller can reach the remote between them.

\* the names and parents the two callers ask for
RaceNames == {NodeName[1], NodeName[2]}
RaceParents == {ROOT_FOLDER_ID}

RaceSet(f, r, v) == [f EXCEPT ![r] = v]

\* a caller enters get_or_create_folder(name, parent_id)
RaceGetOrCreateFolder ==
    /\ \E r \in Resolvers, name \in RaceNames, parent_id \in RaceParents :
          /\ r_pc[r] \in {"idle", "done", "raised"}
          /\ r_pc' = RaceSet(r_pc, r, "find")
          /\ r_name' = RaceSet(r_name, r, name)
          /\ r_parent' = RaceSet(r_parent, r, parent_id)
          /\ r_folder' = RaceSet(r_folder, r, NULL)
    /\ UNCHANGED <<uploadVars, remoteVars, storeVars, callerVars, schemaVars,
                   zipVars, mimeVars, syncRaceVars>>

\* girder_client.py:166-167  folder = find_folder(name, parent_id);
\* if not folder: ...
RaceFindFolder ==
    /\ \E r \in Resolvers, find_fails \in BOOLEAN :
          LET found == FindFolder(folders, r_name[r], r_parent[r]) IN
          /\ r_pc[r] = "find"
          /\ r_pc' = RaceSet(r_pc, r, IF find_fails THEN "raised"
                                     ELSE IF found # NULL THEN "done"
                                     ELSE "create")
          /\ r_folder' = RaceSet(r_folder, r, IF find_fails THEN NULL ELSE found)
    /\ UNCHANGED <<r_name, r_parent, uploadVars, remoteVars, storeVars,
                   callerVars, schemaVars, zipVars, mimeVars, syncRaceVars>>

\* girder_client.py:168-169  folder = create_folder(name, parent_id);
\* return folder
RaceCreateFolder ==
    /\ \E r \in Resolvers, create_fails \in BOOLEAN :
          /\ r_pc[r] = "create"
          /\ IF create_fails
             THEN /\ r_pc' = RaceSet(r_pc, r, "raised")
                  /\ UNCHANGED <<r_folder, folders, next_folder_id>>
             ELSE /\ r_pc' = RaceSet(r_pc, r, "done")
                  /\ folders' = CreateFolder(folders, next_folder_id,
                                             r_name[r], r_parent[r])
                  /\ r_folder' = RaceSet(r_folder, r,
                        IF \E f \in folders' : f.id = next_folder_id
                        THEN next_folder_id
                        ELSE FindFolder(folders', r_name[r], r_parent[r]))
                  /\ next_folder_id' = next_folder_id + 1
    /\ UNCHANGED <<r_name, r_parent, folder_calls, uploadVars, storeVars,
                   callerVars, schemaVars, zipVars, mimeVars, syncRaceVars>>

\* ------------------------------------------------------------------------
\* One sync_to_girder request (app.py:514-570) and one extract_and_sync_files
\* run (extract_sync.py:321-352) at the same time, each in its own process
\* over the one store: both read the synced flag, upload, then mark. The
\* folder lookups and the requests of upload_file are one step here, with its
\* two outcomes.

RowIds(rows) == [i \in 1..Len(rows) |-> rows[i].id]

\* app.py:516-526  file_info = db.get_file_with_path_info(file_id) and the
\* test of its synced flag; extract_sync.py:322  get_unsynced_files(db)
SyncRaceRead ==
    /\ \E p \in Syncers :
          /\ s_pc[p] = "idle"
          /\ \E rows \in IF p = "web"
                         THEN {IF AlreadySynced(files, f) THEN <<>> ELSE <<f>> :
                                  f \in FileRows}
                         ELSE {RowIds(GetUnsyncedFiles(files, girder_folder_id))} :
                /\ s_rows' = RaceSet(s_rows, p, rows)
                /\ s_pc' = RaceSet(s_pc, p, IF rows = <<>> THEN "done"
                                            ELSE "upload")
    /\ UNCHANGED <<s_got, remote_files, r_pc, r_name, r_parent, r_folder,
                   uploadVars, remoteVars, storeVars, callerVars, schemaVars,
                   zipVars, mimeVars>>

\* the record after the one just handled: the request of the web process is
\* over, the batch goes on with its list (extract_sync.py:343)
AfterRow(p) ==
    LET rest == Tail(s_rows[p]) IN
    /\ s_rows' = RaceSet(s_rows, p, rest)
    /\ s_pc' = RaceSet(s_pc, p, IF rest = <<>> THEN "done" ELSE "upload")

\* app.py:528-567, extract_sync.py:252-269  the folder of the record is
\* looked up and upload_file is called: the remote has a new file and answers
\* with its id, or a step failed and the record is left as it was
SyncRaceUpload ==
    /\ \E p \in Syncers :
          /\ s_pc[p] = "upload"
          /\ \/ LET new_id == Cardinality(remote_files) + 1 IN
                /\ remote_files' = remote_files \cup
                      {[id |-> new_id, record |-> Head(s_rows[p])]}
                /\ s_got' = RaceSet(s_got, p, new_id)
                /\ s_pc' = RaceSet(s_pc, p, "mark")
                /\ UNCHANGED s_rows
             \/ /\ AfterRow(p)
                /\ UNCHANGED <<s_got, remote_files>>
    /\ UNCHANGED <<r_pc, r_name, r_parent, r_folder, uploadVars, remoteVars,
                   storeVars, callerVars, schemaVars, zipVars, mimeVars>>

\* app.py:570, extract_sync.py:273  db.mark_file_synced(file_id, girder_file_id)
SyncRaceMark ==
    /\ \E p \in Syncers :
          /\ s_pc[p] = "mark"
          /\ files' = MarkFileSynced(files, Head(s_rows[p]), s_got[p])
          /\ AfterRow(p)
    /\ UNCHANGED <<s_got, remote_files, girder_folder_id, r_pc, r_name,
                   r_parent, r_folder, uploadVars, remoteVars, callerVars,
                   schemaVars, zipVars, mimeVars>>

\* ------------------------------------------------------------------------
\* Initial states and specifications

UploadAtRest ==
    /\ up_pc = "idle"
    /\ file_data = <<>>
    /\ file_size = 0
    /\ folder_id = NULL
    /\ upload_id = 0
    /\ offset = 0
    /\ pos = 0
    /\ result = NoResult
    /\ file_result = NoResult
    /\ up_exc = NoExc
    /\ requests = <<>>
    /\ next_upload_id = 0
    /\ n_uploads = 0

HandlersAtRest ==
    /\ caller = "direct"
    /\ cur_file = NULL
    /\ batch_pc = "idle"
    /\ unsynced_files = <<>>
    /\ idx = 1
    /\ results = NoResults
    /\ response = Reply(0, "none", NULL)
    /\ n_syncs = 0
    /\ schema_pc = "idle"
    /\ cur_node = 1
    /\ folder_ids = [n \in Nodes |-> NULL]
    /\ prev_folder_ids = [n \in Nodes |-> NULL]
    /\ failures = 0
    /\ prev_failures = 0
    /\ n_runs = 0
    /\ folder_calls = <<>>
    /\ r_pc = [r \in Resolvers |-> "idle"]
    /\ r_name = [r \in Resolvers |-> ""]
    /\ r_parent = [r \in Resolvers |-> NULL]
    /\ r_folder = [r \in Resolvers |-> NULL]
    /\ s_pc = [p \in Syncers |-> "idle"]
    /\ s_rows = [p \in Syncers |-> <<>>]
    /\ s_got = [p \in Syncers |-> NULL]
    /\ remote_files = {}
    /\ zip_names = <<>>
    /\ extract_dicom = TRUE
    /\ zip_data = "zip"
    /\ file_name = <<"f">>
    /\ mime_type = MimeType(<<"f">>)

\* the remote folder that mirrors node n of the local store
RemoteFolderOf(n) ==
    [id |-> n + 1,
     parentId |-> IF ParentNode[n] = NULL THEN ROOT_FOLDER_ID
                  ELSE ParentNode[n] + 1,
     name |-> NodeName[n]]

\* the sets of nodes that hold the parent of each of their nodes
ClosedNodeSets ==
    {S \in SUBSET Nodes : \A n \in S : ParentNode[n] = NULL \/ ParentNode[n] \in S}

\* The stores and remotes a sync can meet. The file records are as create_file
\* leaves them. create_girder_schema stores the id of a node after the ids of
\* its ancestors, so the nodes with a stored id are a closed set (here a part of
\* the path of document type 4; document type 5 has none yet). The remote
\* holds the folders of any closed part of the tree, and a stored id is
\* either the id of the node's remote folder or the id of a folder that is
\* gone.
InitSync ==
    /\ UploadAtRest
    /\ HandlersAtRest
    /\ \E S \in ClosedNodeSets, T \in ClosedNodeSets :
        /\ 5 \notin T
        /\ folders = {RemoteFolderOf(n) : n \in S}
        /\ girder_folder_id \in [Nodes -> {NULL, StaleId} \cup {n + 1 : n \in S}]
        /\ \A n \in Nodes :
              /\ n \notin T => girder_folder_id[n] = NULL
              /\ n \in T => girder_folder_id[n] \in {StaleId, n + 1}
    /\ next_folder_id = StaleId + 1
    /\ files = [f \in FileRows |-> NewFile(f)]

\* The stores and remotes a create_girder_schema run can meet: the remote
\* holds the folders of any closed part of the tree and, or not, a second
\* folder with the name of the center; the nodes of a part of the path of
\* document type 4 have a stored id, which is the id of the node's remote
\* folder when that one exists.
InitResolve ==
    /\ UploadAtRest
    /\ HandlersAtRest
    /\ \E S \in ClosedNodeSets, T \in ClosedNodeSets, twin \in BOOLEAN :
        /\ 5 \notin T
        /\ folders = {RemoteFolderOf(n) : n \in S} \cup
                     (IF twin
                      THEN {[id |-> TwinId, parentId |-> ROOT_FOLDER_ID,
                             name |-> NodeName[1]]}
                      ELSE {})
        /\ girder_folder_id =
              [n \in Nodes |-> IF n \notin T THEN NULL
                               ELSE IF n \in S THEN n + 1 ELSE StaleId]
    /\ next_folder_id = StaleId + 1
    /\ files = [f \in FileRows |-> NewFile(f)]

NextResolve ==
    \/ CreateGirderSchema
    \/ SchemaNode
    \/ RedcapWebhook

SpecResolve == InitResolve /\ [][NextResolve]_vars

\* two callers of get_or_create_folder and a remote that holds any closed part
\* of the tree
InitRace ==
    /\ UploadAtRest
    /\ HandlersAtRest
    /\ \E S \in ClosedNodeSets : folders = {RemoteFolderOf(n) : n \in S}
    /\ girder_folder_id = [n \in Nodes |-> NULL]
    /\ next_folder_id = StaleId + 1
    /\ files = [f \in FileRows |-> NewFile(f)]

NextRace ==
    \/ RaceGetOrCreateFolder
    \/ RaceFindFolder
    \/ RaceCreateFolder

SpecRace == InitRace /\ [][NextRace]_vars

\* the two processes start on a store in which any of the records may be
\* synced already
InitSyncRace ==
    /\ UploadAtRest
    /\ HandlersAtRest
    /\ folders = {RemoteFolderOf(n) : n \in Nodes}
    /\ girder_folder_id = [n \in Nodes |-> n + 1]
    /\ next_folder_id = StaleId + 1
    /\ \E done \in SUBSET FileRows :
          files = [f \in FileRows |->
                      IF f \in done THEN MarkFileSynced(
                                            [g \in FileRows |-> NewFile(g)],
                                            f, MaxFileId)[f]
                      ELSE NewFile(f)]

NextSyncRace ==
    \/ SyncRaceRead
    \/ SyncRaceUpload
    \/ SyncRaceMark

SpecSyncRace == InitSyncRace /\ [][NextSyncRace]_vars

\* the requests of REDCap reach a remote that holds any closed part of the
\* tree, with or without a second folder of the center's name
InitIngest ==
    /\ UploadAtRest
    /\ HandlersAtRest
    /\ \E S \in ClosedNodeSets, twin \in BOOLEAN :
          folders = {RemoteFolderOf(n) : n \in S} \cup
                    (IF twin
                     THEN {[id |-> TwinId, parentId |-> ROOT_FOLDER_ID,
                            name |-> NodeName[1]]}
                     ELSE {})
    /\ girder_folder_id = [n \in Nodes |-> NULL]
    /\ next_folder_id = StaleId + 1
    /\ files = [f \in FileRows |-> NewFile(f)]

NextIngest ==
    \/ RedcapWebhook
    \/ UploadPatientFiles
    \/ UploadPatientFile
    \/ UploadInit
    \/ UploadSmallChunk
    \/ UploadLargeChunk

SpecIngest == InitIngest /\ [][NextIngest]_vars

NextHook ==
    \/ RunTests
    \/ SendWebhook

SpecHook == InitIngest /\ [][NextHook]_vars

NextSync ==
    \/ ExtractAndSyncFiles
    \/ SyncSingleFile
    \/ SyncToGirder
    \/ UploadInit
    \/ UploadSmallChunk
    \/ UploadLargeChunk

SpecSync == InitSync /\ [][NextSync]_vars

\* A store whose ids were written by two runs of create_girder_schema at the
\* same time. Each run creates its own folder for a level the other has not
\* found either and writes the ids from the snapshot it read at its start
\* (create_girder_schema.py:94, 119-127), so the last write of each level
\* stays: the remote holds the tree and a second folder of the center's name,
\* and the stored id of a level is null or the id of a folder one of the two
\* runs got for that level (for the center also the id of a folder that is
\* gone).
InitChain ==
    /\ UploadAtRest
    /\ HandlersAtRest
    /\ folders = {RemoteFolderOf(n) : n \in Nodes} \cup
                 {[id |-> TwinId, parentId |-> ROOT_FOLDER_ID,
                   name |-> NodeName[1]]}
    /\ girder_folder_id \in [Nodes -> {NULL, StaleId, TwinId} \cup
                                      {n + 1 : n \in Nodes}]
    /\ girder_folder_id[1] \in {NULL, StaleId, TwinId, 1 + 1}
    /\ \A n \in 2..4 : girder_folder_id[n] \in {NULL, n + 1}
    /\ girder_folder_id[5] = NULL
    /\ next_folder_id = StaleId + 1
    /\ files = [f \in FileRows |-> NewFile(f)]

SpecChain == InitChain /\ [][NextSync]_vars

\* direct calls of upload_file(bytes, folder_id, file_name), as
\* upload_patient_files and extract_and_upload_zip make them: the local store
\* is not involved
InitUpload ==
    /\ UploadAtRest
    /\ HandlersAtRest
    /\ folders = {}
    /\ next_folder_id = StaleId + 1
    /\ girder_folder_id = [n \in Nodes |-> NULL]
    /\ files = [f \in FileRows |-> NewFile(f)]

NextUpload ==
    \/ UploadFile
    \/ UploadInit
    \/ UploadSmallChunk
    \/ UploadLargeChunk

SpecUpload == InitUpload /\ [][NextUpload]_vars

\* a call of upload_file that has started runs on: every request is answered
\* or fails (the chunk requests of the loop carry a timeout), and the
\* interpreter takes the next statement
UploadRunsOn == WF_vars(UploadInit \/ UploadSmallChunk \/ UploadLargeChunk)

SpecUploadLive == SpecUpload /\ UploadRunsOn

NextMime ==
    \/ UploadNamedFile
    \/ UploadInit
    \/ UploadSmallChunk

SpecMime == InitUpload /\ [][NextMime]_vars

NextZip ==
    \/ ExtractAndUploadZip
    \/ ZipEntry
    \/ UploadInit
    \/ UploadSmallChunk
    \/ UploadLargeChunk

SpecZip == InitUpload /\ [][NextZip]_vars

\* ------------------------------------------------------------------------
\* Vocabulary of the upload claims

IsLarge(size) == size > CHUNK_SIZE

ChunkRequests == SelectSeq(requests, LAMBDA r : r.kind = "chunk")
InitRequests == SelectSeq(requests, LAMBDA r : r.kind = "init")

\* ceil(size / CHUNK_SIZE)
CeilChunks(size) == (size + CHUNK_SIZE - 1) \div CHUNK_SIZE

\* every chunk sent so far was acknowledged with received = offset + length
AllAcked ==
    \A i \in 1..Len(ChunkRequests) :
        LET r == ChunkRequests[i] IN
        ~r.failed /\ r.received = r.offset + Len(r.data)

\* the call is over, by a return or by the raise that follows the loop
LoopOver == up_pc = "returned" \/ (up_pc = "raised" /\ up_exc.what = "incomplete")

\* the last request was a chunk that the server answered
LastChunkAnswered ==
    /\ Len(requests) > 0
    /\ requests[Len(requests)].kind = "chunk"
    /\ ~requests[Len(requests)].failed

\* C3: a successful upload of a payload of at most CHUNK_SIZE made one init call
\* and then one chunk call at offset 0 with the whole payload, and its result
\* carries a file id and a size equal to the payload length.
C3_SmallUpload ==
    (up_pc = "returned" /\ IsSmall(file_size)) =>
        /\ Len(requests) = 2
        /\ requests[1].kind = "init"
        /\ requests[2].kind = "chunk"
        /\ requests[2].offset = 0
        /\ requests[2].data = file_data
        /\ file_result.has_id
        /\ file_result.has_size
        /\ file_result.size = file_size

\* C4: in an upload of more than CHUNK_SIZE whose chunks were all acknowledged
\* with received = offset + length, chunk i is sent at offset (i-1)*CHUNK_SIZE
\* with CHUNK_SIZE blocks (fewer for the last), ceil(size/CHUNK_SIZE) chunks are
\* sent by the end of the call, and a returned result is the last chunk's
\* response, which has the file id.
C4_LargeUpload ==
    (IsLarge(file_size) /\ up_pc \in {"loop", "returned", "raised"} /\ AllAcked) =>
        /\ \A i \in 1..Len(ChunkRequests) :
              /\ ChunkRequests[i].offset = (i - 1) * CHUNK_SIZE
              /\ Len(ChunkRequests[i].data) =
                    Min(CHUNK_SIZE, file_size - (i - 1) * CHUNK_SIZE)
        /\ Len(ChunkRequests) <= CeilChunks(file_size)
        /\ (LoopOver => Len(ChunkRequests) = CeilChunks(file_size))
        /\ (up_pc = "returned" =>
              /\ LastChunkAnswered
              /\ file_result = result
              /\ file_result.has_id)

\* C4 witness: 25 MiB went out as 10 + 10 + 5 and the upload returned
C4_Witness ==
    /\ up_pc = "returned"
    /\ file_size = 5
    /\ AllAcked
    /\ Len(ChunkRequests) = 3
    /\ Len(ChunkRequests[3].data) = 1

\* C5: every chunk request of a multi-chunk upload sent with offset o carries
\* the payload blocks [o, o + len).
C5_ChunkOffsetAgreement ==
    IsLarge(file_size) =>
        \A i \in 1..Len(ChunkRequests) :
            LET r == ChunkRequests[i] IN
            r.data = SubSeq(file_data, r.offset + 1, r.offset + Len(r.data))

\* C6: when the response to the final chunk of a multi-chunk upload lacks the
\* file id or lacks the size, upload_file raises the incomplete-upload error
\* with the last offset and the expected size.
C6_IncompleteDetected ==
    (/\ IsLarge(file_size)
     /\ up_pc \in {"returned", "raised"}
     /\ LastChunkAnswered
     /\ IsFinal(offset, file_size)
     /\ (~result.has_id \/ ~result.has_size)) =>
        /\ up_pc = "raised"
        /\ up_exc = IncompleteError(offset, file_size)

\* C7: a request that failed at transport or HTTP level is the last request of
\* its upload, and the call has raised GirderError without a result.
C7_TransportAborts ==
    \A i \in 1..Len(requests) :
        requests[i].failed =>
            /\ i = Len(requests)
            /\ up_pc = "raised"
            /\ up_exc = TransportError
            /\ file_result.none

\* C7 witness: the second chunk of a multi-chunk upload failed
C7_Witness ==
    /\ up_pc = "raised"
    /\ Len(requests) = 3
    /\ requests[3].kind = "chunk"
    /\ requests[3].failed

\* ------------------------------------------------------------------------
\* Vocabulary of the sync claims

FromSync == caller \in {"sync_single_file", "sync_to_girder"}

\* the oracle of a resolution in which no request fails
NoFailure == [get |-> [k \in 1..4 |-> FALSE], find |-> [k \in 1..4 |-> FALSE]]

\* the folder path of record f can be resolved by name in the remote
ResolvableByName(f) ==
    FindGirderFolderPath(folders, FileInfo(files, girder_folder_id, f),
                         ROOT_FOLDER_ID, NoFailure).exc = "none"

\* the stored folder id of the document type of record f is gone from the remote
StaleDocId(f) ==
    /\ girder_folder_id[files[f].document_type_id] # NULL
    /\ ~FolderExists(folders, girder_folder_id[files[f].document_type_id])

\* the last chunk response was the terminal one: the call returned, or raised
\* after the loop with offset >= file_size
TerminalResponse ==
    \/ up_pc = "returned"
    \/ /\ up_pc = "raised"
       /\ up_exc.what = "incomplete"
       /\ up_exc.last_offset >= up_exc.expected

\* C2: no sync entry point answers not-found for a record whose stored folder
\* id is stale while its folder path can be found by name: sync_to_girder does
\* not answer 404 for the folder, and the batch does not report the level as
\* not found.
C2_StaleCacheRecovery ==
    /\ (/\ caller = "sync_to_girder"
        /\ cur_file \in FileRows
        /\ StaleDocId(cur_file)
        /\ ResolvableByName(cur_file)) =>
           ~(response.code = 404 /\ response.status \in
                {"Folder exists in database but not in Girder",
                 "Folder structure not found in database"})
    /\ (caller = "sync_single_file" =>
           \A i \in 1..Len(results.details) :
               (/\ results.details[i].message.text = "not found in Girder"
                /\ \E k \in 1..4 :
                      /\ unsynced_files[i].stored[k] # NULL
                      /\ ~FolderExists(folders, unsynced_files[i].stored[k])) =>
                  ~ResolvableByName(results.details[i].file_id))

\* C8: when the terminal chunk response of a multi-chunk upload has a file id
\* and a size other than file_size, upload_file returns that response, and the
\* sync handler that called it has marked the record synced with that id.
C8_SoftSizeVerification ==
    (/\ FromSync
     /\ IsLarge(file_size)
     /\ TerminalResponse
     /\ result.has_id
     /\ result.has_size
     /\ result.size # file_size) =>
        /\ up_pc = "returned"
        /\ file_result = result
        /\ files[cur_file].synced_to_girder
        /\ files[cur_file].girder_file_id = result.id

\* C8 witness: a sync got back a result of another size and marked the record
C8_Witness ==
    /\ caller = "sync_single_file"
    /\ up_pc = "returned"
    /\ IsLarge(file_size)
    /\ file_result.has_size
    /\ file_result.size # file_size
    /\ files[cur_file].synced_to_girder

\* a step changes a file record only by marking the record being synced with
\* the id of the result upload_file returned in that step
MarksOnlyOnReturn ==
    \A f \in FileRows :
        files'[f] # files[f] =>
            /\ FromSync
            /\ f = cur_file
            /\ up_pc' = "returned"
            /\ file_result'.has_id
            /\ files'[f] = [files[f] EXCEPT !.synced_to_girder = TRUE,
                                            !.girder_file_id = file_result'.id]

\* a step that ends the sync of a record in a failure leaves the record
\* unsynced with a null remote file id
FailureLeavesUnsynced ==
    LET failed_batch == /\ caller' = "sync_single_file"
                        /\ Len(results'.details) > Len(results.details)
                        /\ ~results'.details[Len(results'.details)].success
        failed_request == /\ caller' = "sync_to_girder"
                          /\ response'.code >= 400
                          /\ response' # response
                          /\ cur_file' \in FileRows
    IN
    (failed_batch \/ failed_request) =>
        /\ files' = files
        /\ ~files'[cur_file'].synced_to_girder
        /\ files'[cur_file'].girder_file_id = NULL

\* C9: a file record becomes synced only in the step in which upload_file
\* returned a result for it, with the id of that result as its remote file
\* id; a failed disk check, folder resolution or upload leaves the record
\* unsynced with a null remote file id.
C9_SyncMarking ==
    [][MarksOnlyOnReturn /\ FailureLeavesUnsynced]_vars

\* C9 witness: sync_to_girder marked a record with the id upload_file returned
C9_Witness ==
    /\ caller = "sync_to_girder"
    /\ up_pc = "returned"
    /\ file_result.has_id
    /\ files[cur_file].synced_to_girder
    /\ files[cur_file].girder_file_id = file_result.id

\* C10: while a batch runs every row before idx has its details entry and is
\* counted once, and the summary of a finished batch over N rows has
\* synced + failed = total_files = N and one details entry per row, in order.
C10_BatchPartialFailure ==
    (caller = "sync_single_file" /\ batch_pc \in {"running", "done"}) =>
        /\ results.total_files = Len(unsynced_files)
        /\ Len(results.details) = results.synced + results.failed
        /\ results.synced =
              Cardinality({i \in 1..Len(results.details) :
                              results.details[i].success})
        /\ \A i \in 1..Len(results.details) :
              results.details[i].file_id = unsynced_files[i].id
        /\ (batch_pc = "done" =>
              results.synced + results.failed = results.total_files)

\* C10 witness: a batch of NFiles files ended with the first file failed and a
\* later one synced
C10_Witness ==
    /\ caller = "sync_single_file"
    /\ batch_pc = "done"
    /\ results.total_files = NFiles
    /\ ~results.details[1].success
    /\ results.details[NFiles].success
    /\ results.failed = 1

\* ------------------------------------------------------------------------
\* Vocabulary of the resolution claims

CreateCalls == SelectSeq(folder_calls, LAMBDA c : c.op = "create_folder")

\* this run and the run before it are over and no request of either failed
TwoCleanRuns ==
    /\ caller = "create_girder_schema"
    /\ schema_pc = "done"
    /\ n_runs >= 2
    /\ failures = 0
    /\ prev_failures = 0

\* C1: when create_girder_schema has resolved the tree twice and no request of
\* either run failed, the second run got for every node the folder id the
\* first run got, and made no create_folder call.
C1_IdempotentResolution ==
    TwoCleanRuns =>
        /\ \A n \in Nodes : folder_ids[n] # NULL /\ folder_ids[n] = prev_folder_ids[n]
        /\ CreateCalls = <<>>

\* C1 witness: the first of two clean runs had to create folders
C1_Witness ==
    /\ TwoCleanRuns
    /\ next_folder_id > StaleId + 1
    /\ \A n \in Nodes : folder_ids[n] = prev_folder_ids[n]

\* ------------------------------------------------------------------------
\* Vocabulary of the claims about the resolution of a file's folder path

LastDetail == results.details[Len(results.details)]

\* the row of the batch that LastDetail reports on
LastRow == unsynced_files[Len(results.details)]

\* sync_single_file has just failed the last row because a level was missing
PathFailed ==
    /\ caller = "sync_single_file"
    /\ up_pc = "idle"
    /\ Len(results.details) > 0
    /\ LastDetail.message.text = "not found in Girder"

\* the calls of the log that are for level j
CallsAt(j) == SelectSeq(folder_calls, LAMBDA c : c.level = j)

\* the log shows level j resolved: its stored id answered, or its name was
\* found under the parent that was asked
LevelResolved(j, info) ==
    \/ /\ Len(CallsAt(j)) = 1
       /\ CallsAt(j)[1] = GetCall(j, info.stored[j])
       /\ FolderExists(folders, info.stored[j])
    \/ /\ Len(CallsAt(j)) >= 1
       /\ LET c == CallsAt(j)[Len(CallsAt(j))] IN
          /\ c.op = "find_folder"
          /\ c.name = info.names[j]
          /\ Matches(folders, c.name, c.parentId) # {}

\* C11: the failure message of a file whose folder path is missing names a
\* level k such that every level above k was verified by its stored id or
\* found by name, level k was looked up by name under the resolved parent and
\* not found, and no request was made for a level below k.
C11_FailureNamesLevel ==
    PathFailed =>
        LET k == LastDetail.message.level
            last == folder_calls[Len(folder_calls)]
        IN
        /\ k \in 1..4
        /\ \A j \in 1..(k - 1) : LevelResolved(j, LastRow)
        /\ \A i \in 1..Len(folder_calls) : folder_calls[i].level <= k
        /\ last = FindCall(k, LastRow.names[k], last.parentId)
        /\ Matches(folders, last.name, last.parentId) = {}
        /\ (LastRow.stored[k] # NULL =>
               CallsAt(k) = <<GetCall(k, LastRow.stored[k]), last>>)
        /\ (k = 1 => last.parentId = ROOT_FOLDER_ID)

\* C11 witness: the visit level is reported missing after the center was
\* verified by its stored id and the patient was found by name
C11_Witness ==
    /\ PathFailed
    /\ LastDetail.message.level = 3
    /\ LastRow.stored[1] # NULL
    /\ FolderExists(folders, LastRow.stored[1])
    /\ LastRow.stored[2] = NULL

\* ------------------------------------------------------------------------
\* Vocabulary of the claims about repeated syncs

\* this step is the start of an extract_and_sync_files run
BatchStarts == caller' = "sync_single_file" /\ n_syncs' = n_syncs + 1

\* this step is the start of a sync_to_girder request
RequestStarts == caller' = "sync_to_girder" /\ n_syncs' = n_syncs + 1

AllSynced == \A f \in FileRows : files[f].synced_to_girder

\* no folder request and no upload request was made, and the store is as it was
NothingDone ==
    /\ folder_calls' = <<>>
    /\ up_pc' = "idle"
    /\ requests' = <<>>
    /\ files' = files
    /\ folders' = folders

\* C12: an extract_and_sync_files run that starts when every file is synced
\* finds no unsynced file, makes no remote call and returns total_files =
\* synced = failed = 0; a sync_to_girder request for a synced record makes no
\* remote call and uploads nothing.
C12_IdempotentRerun ==
    [][/\ (BatchStarts /\ AllSynced) =>
              /\ unsynced_files' = <<>>
              /\ batch_pc' = "done"
              /\ results' = NoResults
              /\ NothingDone
       /\ (/\ RequestStarts
           /\ cur_file' \in FileRows
           /\ files[cur_file'].synced_to_girder) =>
              /\ response'.status = "already_synced"
              /\ NothingDone]_vars

\* C12 witness: a second batch run found nothing to do after the first one
\* synced every file
C12_Witness ==
    /\ caller = "sync_single_file"
    /\ n_syncs = 2
    /\ AllSynced
    /\ unsynced_files = <<>>
    /\ batch_pc = "done"
    /\ results = NoResults

\* ------------------------------------------------------------------------
\* C13  A stored folder id is written once: no step of a schema run and no
\* webhook call changes the girder_folder_id of a node that already has one,
\* also when the stored id names no remote folder.
C13_StoredIdWriteOnce ==
    [][\A n \in Nodes :
          girder_folder_id[n] # NULL => girder_folder_id'[n] = girder_folder_id[n]]_vars

\* a schema run resolved a node to a folder other than the one it has stored
C13_Witness ==
    \E n \in Nodes :
        /\ caller = "create_girder_schema"
        /\ girder_folder_id[n] # NULL
        /\ folder_ids[n] # NULL
        /\ folder_ids[n] # girder_folder_id[n]

\* ------------------------------------------------------------------------
\* C14  Sibling-name uniqueness under a single writer: when no parent had
\* two child folders of one name in the remote state the calls started from,
\* no parent has two after any sequence of get_or_create_folder calls made
\* one after the other, whether or not some of their requests failed.

\* no two folders of fs share a parent and a name
UniqueSiblings(fs) ==
    \A f \in fs, g \in fs :
        (f.parentId = g.parentId /\ f.name = g.name) => f.id = g.id

\* folders are never removed and new ids start above StaleId, so these are
\* the folders of the initial remote state
InitialFolders == {f \in folders : f.id <= StaleId}

C14_SiblingNamesUnique ==
    UniqueSiblings(InitialFolders) => UniqueSiblings(folders)

\* a schema run and a webhook call have created folders, one request failed
C14_Witness ==
    /\ UniqueSiblings(InitialFolders)
    /\ schema_pc = "done"
    /\ failures = 1
    /\ n_syncs = 1
    /\ Cardinality(folders \ InitialFolders) >= 3

\* ------------------------------------------------------------------------
\* C19  A recorded id is preferred over a lookup by name: when a schema run
\* resolves a node whose stored folder id exists in the remote, it takes that
\* id for the node and sends no find_folder and no create_folder request.

\* a step of a schema run resolves node cur_node (its parent is resolved)
SchemaResolves ==
    /\ schema_pc = "running"
    /\ cur_node' = cur_node + 1
    /\ ParentNode[cur_node] # NULL => folder_ids[ParentNode[cur_node]] # NULL

C19_RecordedIdPreferred ==
    [][(/\ SchemaResolves
        /\ girder_folder_id[cur_node] # NULL
        /\ FolderExists(folders, girder_folder_id[cur_node])) =>
           /\ folder_ids'[cur_node] = girder_folder_id[cur_node]
           /\ \A i \in (Len(folder_calls) + 1)..Len(folder_calls') :
                  folder_calls'[i].op \notin {"find_folder", "create_folder"}]_vars

\* ------------------------------------------------------------------------
\* C17  Resolution aborts at the failing level: when the existence check of
\* a stored id fails although the folder exists (a failed request, not a
\* missing folder), the resolution of the path ends there: no folder request
\* is sent for a lower level and no upload is started for the file.

\* request i of the log is a get_folder_by_id of an existing folder that was
\* followed by the find_folder of its level, so it raised GirderError
CheckFailedAt(i) ==
    /\ i < Len(folder_calls)
    /\ folder_calls[i].op = "get_folder_by_id"
    /\ FolderExists(folders, folder_calls[i].id)
    /\ folder_calls[i + 1].op = "find_folder"
    /\ folder_calls[i + 1].level = folder_calls[i].level

C17_AbortsAtFailingLevel ==
    caller = "sync_single_file" =>
        \A i \in 1..Len(folder_calls) :
            CheckFailedAt(i) =>
                /\ \A j \in 1..Len(folder_calls) :
                       folder_calls[j].level <= folder_calls[i].level
                /\ up_pc # "init"

\* ------------------------------------------------------------------------
\* C18  Write-through caching: once the sync resolver has resolved the path
\* of a file and the upload into the resolved folder starts, the local store
\* holds the resolved id against the document type of the file.
C18_WriteThroughCaching ==
    (caller = "sync_single_file" /\ up_pc = "init") =>
        girder_folder_id[files[cur_file].document_type_id] = folder_id

\* ------------------------------------------------------------------------
\* C15  Creation race: a caller of get_or_create_folder that found no folder
\* sends create_folder without looking again, so when the request is answered
\* the remote holds one more folder of that name under that parent, also when
\* the other caller has created one in between: then the parent has two
\* child folders of one name.
C15_CreationRace ==
    [][\A r \in Resolvers :
          (r_pc[r] = "create" /\ r_pc'[r] = "done") =>
              /\ r_folder'[r] = next_folder_id
              /\ folders' = folders \cup
                    {[id |-> next_folder_id, parentId |-> r_parent[r],
                      name |-> r_name[r]]}
              /\ (Matches(folders, r_name[r], r_parent[r]) # {} =>
                     ~UniqueSiblings(folders'))]_vars

\* both callers asked for the same missing folder, both found nothing and
\* both created it: the parent has two folders of that name
C15_Witness ==
    /\ UniqueSiblings(InitialFolders)
    /\ \A r \in Resolvers : r_pc[r] = "done" /\ r_folder[r] > StaleId
    /\ r_name[1] = r_name[2]
    /\ r_parent[1] = r_parent[2]
    /\ r_folder[1] # r_folder[2]
    /\ ~UniqueSiblings(folders)

\* ------------------------------------------------------------------------
\* C16  A failure of set_folder_access is not fatal: in redcap_webhook and
\* upload_patient_files a failed set_folder_access on the center folder is
\* followed by the lookup of the patient folder under that center folder, one
\* on the patient folder by set_metadata on that patient folder, and when the
\* metadata request succeeds the request is not answered with an error and
\* its response names the folder whose access could not be set.

FromRedcap == caller \in {"redcap_webhook", "upload_patient_files"}

AccessFailedAt(i) ==
    /\ folder_calls[i].op = "set_folder_access"
    /\ folder_calls[i].failed

C16_AccessFailureNotFatal ==
    FromRedcap =>
        \A i \in 1..Len(folder_calls) :
            AccessFailedAt(i) =>
                LET c == folder_calls[i]
                    last == folder_calls[Len(folder_calls)]
                IN
                /\ i < Len(folder_calls)
                /\ (c.level = 1 =>
                       /\ folder_calls[i + 1].op = "find_folder"
                       /\ folder_calls[i + 1].level = 2
                       /\ folder_calls[i + 1].parentId = c.id)
                /\ (c.level = 2 =>
                       folder_calls[i + 1] \in
                          {MetadataCall(2, c.id, b) : b \in BOOLEAN})
                /\ ((last.op = "set_metadata" /\ ~last.failed) =>
                       /\ response.code # 500
                       /\ (caller = "redcap_webhook" \/ batch_pc = "done") =>
                              (response.code = 200 /\ response.status = "synced")
                       /\ (c.level = 1 => response.chu_folder.id = c.id)
                       /\ (c.level = 2 => response.patient_folder.id = c.id))

\* upload_patient_files answered synced with an uploaded file although
\* set_folder_access had failed on the center folder
C16_Witness ==
    /\ caller = "upload_patient_files"
    /\ batch_pc = "done"
    /\ response.status = "synced"
    /\ Len(response.uploaded_files) >= 1
    /\ \E i \in 1..Len(folder_calls) :
          AccessFailedAt(i) /\ folder_calls[i].level = 1

\* ------------------------------------------------------------------------
\* C20  Archive expansion returns the uploaded subset: extract_and_upload_zip
\* goes through the selected entries one by one in archive order, every end
\* of an upload_file call and every failed read moves it to the next entry,
\* an entry is appended to the returned list exactly when its upload_file
\* call returned, and after the last entry that list is returned. With
\* extract_dicom the selected entries are those with suffix .dcm or .dicom
\* that are no directories, otherwise all entries.

\* the entry names that are files with a DICOM suffix
DicomFiles ==
    { <<"a", ".", "d", "c", "m">>,
      <<"B", ".", "D", "C", "M">>,
      <<"f", "/", "c", ".", "d", "i", "c", "o", "m">> }

Selected ==
    IF extract_dicom
    THEN SelectSeq(zip_names, LAMBDA path : path \in DicomFiles)
    ELSE zip_names

\* extract_and_upload_zip runs on a valid archive
InZip ==
    /\ caller = "extract_and_upload_zip"
    /\ zip_data = "zip"

ZipState ==
    InZip =>
        /\ unsynced_files = Selected
        /\ idx \in 1..(Len(unsynced_files) + 1)
        /\ batch_pc \in {"running", "done"}
        /\ (batch_pc = "running" <=> idx <= Len(unsynced_files))
        /\ (batch_pc = "done" =>
               response = ZipOutcome("returned", results.uploaded_files))

ZipStep ==
    (InZip /\ batch_pc = "running") =>
        LET uploaded == results.uploaded_files
            uploaded2 == results'.uploaded_files
        IN
        /\ idx' \in {idx, idx + 1}
        /\ (up_pc' \in {"idle", "returned", "raised"} <=> idx' = idx + 1)
        /\ (up_pc' = "returned" =>
               /\ Len(uploaded2) = Len(uploaded) + 1
               /\ SubSeq(uploaded2, 1, Len(uploaded)) = uploaded
               /\ uploaded2[Len(uploaded2)].original_path = unsynced_files[idx])
        /\ (up_pc' # "returned" => uploaded2 = uploaded)

C21_CorruptArchive ==
    (caller = "extract_and_upload_zip" /\ zip_data = "not_zip") =>
        /\ response = ZipOutcome("Invalid ZIP file format", <<>>)
        /\ response.status # OpenArchive("not_bytes")
        /\ batch_pc = "idle"
        /\ up_pc = "idle"
        /\ requests = <<>>
        /\ folder_calls = <<>>
        /\ results.uploaded_files = <<>>

\* the call was made with a payload that is no ZIP
C21_Witness ==
    /\ caller = "extract_and_upload_zip"
    /\ zip_data = "not_zip"
    /\ n_syncs = 1

\* ------------------------------------------------------------------------
\* C22  Structured outcome: the response of upload_patient_files to a
\* request of which every file failed differs in its status and in its
\* summary from the response to the same request with every file uploaded;
\* the summary of extract_and_sync_files counts the synced and the failed
\* files apart.

\* the response to the running request had every file been uploaded
AllUploadedReply ==
    UploadReply(response, [i \in 1..Len(unsynced_files) |-> [name |-> i]], <<>>)

\* upload_patient_files has answered and no file was uploaded
EveryFileFailed ==
    /\ caller = "upload_patient_files"
    /\ batch_pc = "done"
    /\ response.uploaded_files = <<>>

C22_StructuredOutcome ==
    EveryFileFailed =>
        /\ response.total_files # AllUploadedReply.total_files
        /\ response.status # AllUploadedReply.status

\* ------------------------------------------------------------------------
\* C23  MIME inference: the init request of upload_file carries as mimeType
\* the documented type of the last extension of the file name, compared
\* without regard to case, and application/octet-stream when the name has
\* another extension or none.

\* the documented table: extension, MIME type
DocumentedTypes ==
    { <<<<".", "d", "c", "m">>, "application/dicom">>,
      <<<<".", "d", "i", "c", "o", "m">>, "application/dicom">>,
      <<<<".", "j", "p", "g">>, "image/jpeg">>,
      <<<<".", "j", "p", "e", "g">>, "image/jpeg">>,
      <<<<".", "p", "n", "g">>, "image/png">>,
      <<<<".", "p", "d", "f">>, "application/pdf">>,
      <<<<".", "t", "x", "t">>, "text/plain">>,
      <<<<".", "c", "s", "v">>, "text/csv">>,
      <<<<".", "j", "s", "o", "n">>, "application/json">>,
      <<<<".", "z", "i", "p">>, "application/zip">>,
      <<<<".", "r", "a", "r">>, "application/x-rar-compressed">>,
      <<<<".", "7", "z">>, "application/x-7z-compressed">>,
      <<<<".", "t", "a", "r">>, "application/x-tar">>,
      <<<<".", "g", "z">>, "application/gzip">> }

\* the last extension of the name, in lower case
LastExtension(name) == Lower(PathSuffix(name))

ExpectedMimeType(name) ==
    IF \E d \in DocumentedTypes : d[1] = LastExtension(name)
    THEN (CHOOSE d \in DocumentedTypes : d[1] = LastExtension(name))[2]
    ELSE "application/octet-stream"

C23_MimeInference ==
    \A i \in 1..Len(requests) :
        requests[i].kind = "init" =>
            /\ requests[i].name = file_name
            /\ requests[i].mimeType = ExpectedMimeType(file_name)

\* the init request of a file named a.tar.GZ went out as application/gzip
C23_Witness ==
    /\ file_name = <<"a", ".", "t", "a", "r", ".", "G", "Z">>
    /\ Len(requests) >= 1
    /\ requests[1].kind = "init"
    /\ requests[1].mimeType = "application/gzip"

\* ------------------------------------------------------------------------
\* C24  Webhook hierarchy: for every record that redcap_webhook answered
\* with status synced, the remote holds the folder CHU_<center_code> under the
\* root and the folder <patient_id> under that folder, the response names
\* these two folders and carries their ids, and the responses to two records
\* of one center carry the same CHU folder id.

\* the responses of the webhook calls made so far
Sent == results.details

Synced(d) == d.response.code = 200 /\ d.response.status = "synced"

HierarchyOf(d) ==
    LET chu == d.response.chu_folder
        pat == d.response.patient_folder
    IN
    /\ chu.name = ChuFolderName(d.patient.center_code)
    /\ pat.name = d.patient.patient_id
    /\ [id |-> chu.id, parentId |-> ROOT_FOLDER_ID, name |-> chu.name]
          \in folders
    /\ [id |-> pat.id, parentId |-> chu.id, name |-> pat.name] \in folders

C24_WebhookHierarchy ==
    caller = "run_tests" =>
        /\ \A i \in 1..Len(Sent) : Synced(Sent[i]) => HierarchyOf(Sent[i])
        /\ \A i \in 1..Len(Sent), j \in 1..Len(Sent) :
              (/\ Synced(Sent[i])
               /\ Synced(Sent[j])
               /\ Sent[i].patient.center_code = Sent[j].patient.center_code) =>
                  Sent[i].response.chu_folder.id = Sent[j].response.chu_folder.id

\* two patients of a center that had no folder were synced, with a failed
\* request between them
C24_Witness ==
    /\ caller = "run_tests"
    /\ Len(Sent) = 3
    /\ Synced(Sent[1])
    /\ ~Synced(Sent[2])
    /\ Synced(Sent[3])
    /\ Sent[1].patient.center_code = Sent[3].patient.center_code
    /\ Sent[1].patient.patient_id # Sent[3].patient.patient_id
    /\ Sent[1].response.chu_folder.id > StaleId

\* ------------------------------------------------------------------------
\* C25  Monotone offsets: in a multi-chunk upload no chunk is sent at an
\* offset below the offset of the chunk sent before it, whatever the server
\* answers.
C25_MonotoneOffsets ==
    IsLarge(file_size) =>
        \A i \in 1..(Len(ChunkRequests) - 1) :
            ChunkRequests[i].offset <= ChunkRequests[i + 1].offset

\* ------------------------------------------------------------------------
\* C26  No terminal result means failure: when the multi-chunk loop has ended
\* after an answered chunk and no response became the terminal file result
\* (the stream ran out with the offset below the declared size, or the final
\* response carries no file id), upload_file has raised the incomplete-upload
\* error with the last offset and the expected size and holds no result; and
\* an upload that returned did so with the final response as its result.
C26_NoTerminalResultFails ==
    /\ (/\ IsLarge(file_size)
        /\ up_pc \in {"returned", "raised"}
        /\ LastChunkAnswered
        /\ (offset < file_size \/ ~result.has_id)) =>
           /\ up_pc = "raised"
           /\ up_exc = IncompleteError(offset, file_size)
           /\ file_result = NoResult
    /\ (IsLarge(file_size) /\ up_pc = "returned") =>
           /\ LastChunkAnswered
           /\ offset >= file_size
           /\ file_result = result
           /\ file_result.has_id

\* C26 witness: every block of a 25 MiB payload was sent, the server
\* acknowledged less than it was sent, and the call raised with that offset
C26_Witness ==
    /\ file_size = 5
    /\ up_pc = "raised"
    /\ LastChunkAnswered
    /\ pos = file_size
    /\ offset < file_size
    /\ up_exc = IncompleteError(offset, file_size)

\* ------------------------------------------------------------------------
\* C27  Bounded wait-and-retry: a multi-chunk upload whose final chunk was
\* answered without the file id and the size does not end on that answer: the
\* last request of the call is a query for the terminal result, made after the
\* final chunk.
C27_WaitAndRetry ==
    (/\ IsLarge(file_size)
     /\ up_pc \in {"returned", "raised"}
     /\ Len(requests) > 0
     /\ ~requests[Len(requests)].failed
     /\ IsFinal(offset, file_size)
     /\ ~result.has_id
     /\ ~result.has_size) =>
        requests[Len(requests)].kind \notin {"init", "chunk"}

\* ------------------------------------------------------------------------
\* C28  The sync path is read-only on remote folders: the folder requests of
\* sync_single_file, extract_and_sync_files and sync_to_girder are
\* get_folder_by_id and find_folder only, no step of a sync changes the set of
\* remote folders, and a file whose path misses a level is recorded as failed
\* while the missing folder stays missing.
ReadOnlyCalls ==
    \A i \in 1..Len(folder_calls) :
        folder_calls[i].op \in {"get_folder_by_id", "find_folder"}

MissingLevelFails ==
    PathFailed =>
        LET last == folder_calls[Len(folder_calls)] IN
        /\ ~LastDetail.success
        /\ LastDetail.girder_file_id = NULL
        /\ ~files[LastDetail.file_id].synced_to_girder
        /\ Matches(folders, last.name, last.parentId) = {}
        /\ up_pc # "init"

C28_SyncReadOnly ==
    /\ [](ReadOnlyCalls /\ MissingLevelFails)
    /\ [][folders' = folders /\ next_folder_id' = next_folder_id]_vars

\* C28 witness: a batch met a file whose center folder is missing on a remote
\* that holds no folder at all, and recorded the failure
C28_Witness ==
    /\ PathFailed
    /\ LastDetail.message.level = 1
    /\ folders = {}
    /\ folder_calls # <<>>

\* ------------------------------------------------------------------------
\* C29  First match wins: when a schema run resolves a node by
\* get_or_create_folder and the request succeeds, then, if the parent holds
\* folders of the node's name, the node gets the first of them (the one the
\* remote lists first), after one find_folder request and without any change
\* of the remote folders; and if the parent holds none, one create_folder
\* request follows the find_folder and the remote holds exactly one more
\* folder, which the node gets.

\* the parent under which the step resolves cur_node
ResolvingParent ==
    IF ParentNode[cur_node] = NULL THEN ROOT_FOLDER_ID
    ELSE folder_ids[ParentNode[cur_node]]

\* the requests the step sent
StepCalls == SubSeq(folder_calls', Len(folder_calls) + 1, Len(folder_calls'))

C29_FirstMatchWins ==
    [][(SchemaResolves /\ folder_ids'[cur_node] # NULL) =>
          LET name == NodeName[cur_node]
              same == Matches(folders, name, ResolvingParent)
              find == FindCall(LevelOf(cur_node), name, ResolvingParent)
              create == CreateCall(LevelOf(cur_node), name, ResolvingParent)
          IN
          IF same # {}
          THEN /\ \E f \in same :
                     /\ folder_ids'[cur_node] = f.id
                     /\ \A g \in same : f.id <= g.id
               /\ StepCalls = <<find>>
               /\ folders' = folders
          ELSE /\ StepCalls = <<find, create>>
               /\ folders' = folders \cup
                     {[id |-> folder_ids'[cur_node], parentId |-> ResolvingParent,
                       name |-> name]}
               /\ Cardinality(folders') = Cardinality(folders) + 1]_vars

\* C29 witness: the root held two folders with the name of the center; the
\* run took the first one for the center and created a folder further down
C29_Witness ==
    /\ caller = "create_girder_schema"
    /\ schema_pc = "done"
    /\ Cardinality(Matches(folders, NodeName[1], ROOT_FOLDER_ID)) = 2
    /\ folder_ids[1] = 2
    /\ CreateCalls # <<>>

\* ------------------------------------------------------------------------
\* C30  Schema creation skips only the failed subtree: a step of a schema run
\* at a node below a node that this run has no folder for sends no request
\* and writes neither the remote nor the store; a step at any other node,
\* whatever happened to its siblings, sends the find_folder request of the
\* node under the folder of its parent.

RECURSIVE AncestorsOf(_)
AncestorsOf(n) ==
    IF ParentNode[n] = NULL THEN {}
    ELSE {ParentNode[n]} \cup AncestorsOf(ParentNode[n])

\* a node above cur_node has no folder in this run
InFailedSubtree == \E a \in AncestorsOf(cur_node) : folder_ids[a] = NULL

SchemaStep == schema_pc = "running" /\ cur_node' = cur_node + 1

C31_FreshSession ==
    /\ \A i \in 1..Len(requests) :
          requests[i].kind = (IF i = 1 THEN "init" ELSE "chunk")
    /\ Len(InitRequests) <= 1
    /\ Len(ChunkRequests) > 0 =>
          /\ ~requests[1].failed
          /\ ChunkRequests[1].offset = 0
          /\ \A i \in 1..Len(ChunkRequests) :
                /\ ChunkRequests[i].uploadId = upload_id
                /\ ChunkRequests[i].uploadId = next_upload_id

\* C31 witness: the second call of upload_file sent two chunks under the id
\* of its own init
C31_Witness ==
    /\ n_uploads = 2
    /\ next_upload_id = 2
    /\ Len(ChunkRequests) = 2
    /\ ChunkRequests[1].offset = 0
    /\ ChunkRequests[2].uploadId = 2

\* ------------------------------------------------------------------------
\* C32  Already-synced short circuit: a sync_to_girder request for a record
\* whose synced flag is set is answered in one step with status
\* already_synced and the remote file id the store holds for the record; the
\* step sends no folder request and no upload request and changes neither the
\* store nor the remote.
C32_AlreadySyncedShortCircuit ==
    [][(/\ RequestStarts
        /\ cur_file' \in FileRows
        /\ files[cur_file'].synced_to_girder) =>
           /\ response'.code = 200
           /\ response'.status = "already_synced"
           /\ response'.girder_file_id = files[cur_file'].girder_file_id
           /\ response'.girder_file_id # NULL
           /\ folder_calls' = <<>>
           /\ requests' = <<>>
           /\ up_pc' = "idle"
           /\ files' = files
           /\ girder_folder_id' = girder_folder_id
           /\ folders' = folders]_vars

\* C32 witness: a request for a record that an earlier sync had marked was
\* answered with the id that sync had stored
C32_Witness ==
    /\ caller = "sync_to_girder"
    /\ n_syncs = 2
    /\ cur_file \in FileRows
    /\ response.status = "already_synced"
    /\ response.girder_file_id = files[cur_file].girder_file_id
    /\ files[cur_file].synced_to_girder
    /\ requests = <<>>

\* ------------------------------------------------------------------------
\* C33  Upload termination: every call of upload_file ends, by a return or a
\* raise, whatever the server answers; a call that takes the loop sends only
\* chunks it read from the stream, each of them non-empty, so that the blocks
\* sent are the blocks read and the number of chunk requests is at most the
\* number of blocks of the payload; a call that does not take the loop sends
\* at most one chunk.

RECURSIVE SentLength(_)
SentLength(chunks) ==
    IF chunks = <<>> THEN 0
    ELSE Len(chunks[1].data) + SentLength(Tail(chunks))

UploadRunning == up_pc \in {"init", "small", "loop"}

UploadOver == up_pc \in {"returned", "raised"}

BoundedRequests ==
    /\ IsSmall(file_size) => Len(ChunkRequests) <= 1
    /\ IsLarge(file_size) =>
          /\ \A i \in 1..Len(ChunkRequests) : Len(ChunkRequests[i].data) > 0
          /\ SentLength(ChunkRequests) = pos
          /\ pos <= Len(file_data)
          /\ Len(ChunkRequests) <= Len(file_data)

C33_UploadTerminates ==
    /\ []BoundedRequests
    /\ UploadRunning ~> UploadOver

\* C33 witness: the server never acknowledged a block; the call sent the
\* 25 MiB in three chunks, all at offset 0, and then raised
C33_Witness ==
    /\ file_size = 5
    /\ up_pc = "raised"
    /\ Len(ChunkRequests) = 3
    /\ \A i \in 1..3 : ChunkRequests[i].offset = 0 /\ ChunkRequests[i].received = 0
    /\ pos = 5

\* ------------------------------------------------------------------------
\* C34  Success implies a complete transfer: when a multi-chunk upload has
\* returned a result, the lengths of the chunks it sent sum to the size of the
\* payload.
C34_SuccessIsComplete ==
    (IsLarge(file_size) /\ up_pc = "returned") =>
        SentLength(ChunkRequests) = file_size

\* ------------------------------------------------------------------------
\* C35  At most one upload per record under interleaving: when a
\* sync_to_girder request and an extract_and_sync_files run work on the same
\* store at the same time, the remote gets at most one file per record of the
\* store.
C35_AtMostOneUpload ==
    \A f \in FileRows :
        Cardinality({u \in remote_files : u.record = f}) <= 1

\* ------------------------------------------------------------------------
\* C36  Synced flag and remote file id move together: in every state of the
\* local store a file record has its synced flag set if and only if its
\* remote file id is not null.
C36_FlagAndIdTogether ==
    \A f \in FileRows :
        files[f].synced_to_girder <=> files[f].girder_file_id # NULL

\* C36 witness: a batch marked the first record and failed the second
C36_Witness ==
    /\ caller = "sync_single_file"
    /\ batch_pc = "done"
    /\ files[1].synced_to_girder
    /\ files[1].girder_file_id # NULL
    /\ ~files[2].synced_to_girder
    /\ files[2].girder_file_id = NULL
    /\ results.failed = 1

\* ------------------------------------------------------------------------
\* C37  Resolved chain is consistent: when find_girder_folder_path has
\* returned a folder id for a file and the upload into it starts, the folder
\* resolved at each of the four levels is a remote child of the folder
\* resolved at the level above (of the root, for the center), and the id
\* returned is the one resolved at the document-type level.

\* the folder the call resolved at level k: the stored id its last request
\* of the level verified, or the folder that request found by name
ResolvedAt(k) ==
    LET last == CallsAt(k)[Len(CallsAt(k))] IN
    IF last.op = "get_folder_by_id" THEN last.id
    ELSE FindFolder(folders, last.name, last.parentId)

ParentOfFolder(id) == (CHOOSE f \in folders : f.id = id).parentId

C37_ChainConsistent ==
    (caller = "sync_single_file" /\ up_pc = "init") =>
        /\ \A k \in 1..4 :
              /\ FolderExists(folders, ResolvedAt(k))
              /\ ParentOfFolder(ResolvedAt(k)) =
                    (IF k = 1 THEN ROOT_FOLDER_ID ELSE ResolvedAt(k - 1))
        /\ folder_id = ResolvedAt(4)

\* ------------------------------------------------------------------------
\* C38  Local store agrees with the remote after schema creation: when a
\* create_girder_schema run is over and none of its requests failed, every
\* node of the store holds the id of the folder the run got for it.
C38_StoreAgreesWithRemote ==
    (caller = "create_girder_schema" /\ schema_pc = "done" /\ failures = 0) =>
        \A n \in Nodes :
            /\ folder_ids[n] # NULL
            /\ girder_folder_id[n] = folder_ids[n]

\* ------------------------------------------------------------------------
\* C39  Missing local file makes no remote call: when sync_single_file has
\* failed a record because its file is not on disk, it sent no folder request
\* and no upload request for the record, the failure carries no remote file
\* id, and the record is unsynced with a null remote file id.
C39_MissingFileNoRemoteCall ==
    (/\ caller = "sync_single_file"
     /\ up_pc = "idle"
     /\ Len(results.details) > 0
     /\ LastDetail.message.text = "File not found on disk") =>
        /\ folder_calls = <<>>
        /\ requests = <<>>
        /\ ~LastDetail.success
        /\ LastDetail.girder_file_id = NULL
        /\ ~files[LastDetail.file_id].synced_to_girder
        /\ files[LastDetail.file_id].girder_file_id = NULL

\* C39 witness: the second file of a batch was missing on disk after the
\* first one had been uploaded and marked
C39_Witness ==
    /\ caller = "sync_single_file"
    /\ up_pc = "idle"
    /\ Len(results.details) = 2
    /\ results.details[1].success
    /\ LastDetail.message.text = "File not found on disk"
    /\ folder_calls = <<>>
    /\ ~files[LastDetail.file_id].synced_to_girder

====
